---- MODULE Spec2Model ----
(***************************************************************************)
(* Request lifecycle of axum-prometheus: LifeCycle::call, the completion   *)
(* combinator ResponseFuture::poll, the body wrapper                       *)
(* ResponseBody::poll_frame, and the shipped Traffic / BodySizeRecorder    *)
(* callbacks writing to the metrics sink.                                  *)
(***************************************************************************)
EXTENDS Integers, Sequences, FiniteSets, TLC

\* ------------------------------------------------------------------ bounds
NumReqs == 2        \* requests that can be in flight in SpecConc
MaxPolls == 3       \* poll_frame calls made on one wrapped body
MaxPending == 1     \* Pending results of one handler future
NumBuilders == 2    \* builders made in the process

Reqs == 1..NumReqs

\* ------------------------------------------------------------ Option<T>
None == [tag |-> "None"]
Some(x) == [tag |-> "Some", v |-> x]
IsSome(o) == o.tag = "Some"

\* ------------------------------------------------------- input alphabets
Methods == {"GET"}
Paths == {"/a", "/metrics"}
Statuses == {200, 500}
Errors == {"e1", "e2"}
Chunks == {<<>>, <<1, 2>>}
TrailerMaps == {"grpc-status:0", "grpc-status:13"}
HeaderValues == {"7", "abc"}
SizeHints == {None, Some(2)}

\* Traffic configuration (builder): ignore patterns, body size tracking.
IgnorePatterns == {"/metrics"}
EnableBodySize == TRUE

Requests == [path : Paths, method : Methods, matched : {None}]

\* ---------------------------------------------- routes, patterns, labels
\* Exact URI paths of a routed application, the route templates the
\* framework attaches as MatchedPath, the patterns handed to the builder and
\* the group labels.
RoutePaths == {"/metrics", "/foo/1", "/foo/1/2"}
Templates == {"/foo/:bar", "/foo/:bar/:baz"}
Patterns == {"/metrics", "/foo/:bar", "/foo/:bar/:baz"}
GroupLabels == {"/foo", "/bar"}
Prefixes == {"pref", "other"}

\* The fallback function of EndpointLabel::MatchedPathWithFallbackFn:
\* format!("{path}_changed").
FallbackFn(path) == path \o "_changed"

Endpoints ==
    Paths \cup RoutePaths \cup Templates \cup GroupLabels
        \cup {FallbackFn(p) : p \in RoutePaths}

\* The segments of a path or of a pattern, split at the slashes.
Segments(p) ==
    CASE p = "/a" -> <<"a">>
      [] p = "/metrics" -> <<"metrics">>
      [] p = "/foo" -> <<"foo">>
      [] p = "/bar" -> <<"bar">>
      [] p = "/metrics_changed" -> <<"metrics_changed">>
      [] p = "/foo/1_changed" -> <<"foo", "1_changed">>
      [] p = "/foo/1/2_changed" -> <<"foo", "1", "2_changed">>
      [] p = "/foo/1" -> <<"foo", "1">>
      [] p = "/foo/1/2" -> <<"foo", "1", "2">>
      [] p = "/foo/:bar" -> <<"foo", ":bar">>
      [] p = "/foo/:bar/:baz" -> <<"foo", ":bar", ":baz">>

\* A segment of a pattern that is a named parameter.
IsParam(seg) == seg \in {":bar", ":baz"}

\* matchit: a pattern matches a path segment by segment; a parameter
\* matches any one segment, a literal only itself.
Matches(pattern, path) ==
    LET ps == Segments(pattern)
        xs == Segments(path)
    IN /\ Len(ps) = Len(xs)
       /\ \A i \in 1..Len(ps) : IsParam(ps[i]) \/ ps[i] = xs[i]

\* Router::at(path).is_ok(): some inserted pattern matches the path.
RouterAt(router, path) == \E pat \in router : Matches(pat, path)

\* Router::insert fails on a pattern that conflicts with an inserted one:
\* the same literals and a parameter at the same places.
Conflicts(router, pattern) ==
    \E q \in router :
        LET ps == Segments(pattern)
            qs == Segments(q)
        IN /\ Len(ps) = Len(qs)
           /\ \A i \in 1..Len(ps) :
                \/ IsParam(ps[i]) /\ IsParam(qs[i])
                \/ ps[i] = qs[i]

\* Traffic::new: no ignore pattern, no group, the default EndpointLabel.
\* group_order is the iteration order of the group_patterns HashMap.
TrafficNew ==
    [ignore_patterns |-> {},
     group_patterns |-> [g \in GroupLabels |-> {}],
     group_order |-> <<>>,
     endpoint_label |-> "MatchedPath"]

\* The Traffic of the layer the lifecycle specifications start with.
DefaultTraffic == [TrafficNew EXCEPT !.ignore_patterns = IgnorePatterns]

\* ---------------------------------------------------------------- state
VARIABLES
    fut,        \* fut[r]: the ResponseFuture of request r and its Option slots
    handler,    \* handler[r]: what the inner handler future resolved to
    result,     \* result[r]: what ResponseFuture::poll resolved to
    body,       \* body[r]: the ResponseBody wrapper handed to the caller
    inner,      \* inner[r]: the inner body: items produced, hints
    out,        \* out[r]: items returned by ResponseBody::poll_frame
    cons,       \* cons[r]: the consumer of the body
    hooks,      \* hooks[r]: Callbacks / OnBodyChunk invocations, in order
    gauge,      \* pending gauge per {method, endpoint}
    gaugeIncs,  \* number of gauge increments
    gaugeDecs,  \* number of gauge decrements
    counter,    \* requests-total counter per {method, status, endpoint}
    duration,   \* duration histogram: observation count per label set
    bodySizes,  \* body-size histogram: observations in recording order
    samples,    \* (metric name, labels) of every sample sent to the sink
    builder,    \* builder[b]: the MetricLayerBuilder b
    layer,      \* the GenericMetricLayer mounted on the service
    prefixed,   \* the PREFIXED_* OnceCell statics
    described,  \* metric names registered by describe_metrics
    recorder,   \* the global metrics recorder (its duration buckets matcher)
    calls       \* the pattern methods called on the builders, in call order

vars == <<fut, handler, result, body, inner, out, cons, hooks,
          gauge, gaugeIncs, gaugeDecs, counter, duration, bodySizes, samples,
          builder, layer, prefixed, described, recorder, calls>>

metricVars ==
    <<gauge, gaugeIncs, gaugeDecs, counter, duration, bodySizes, samples>>
requestVars == <<fut, handler, result, body, inner, out, cons, hooks>>
configVars == <<builder, layer, prefixed, described, recorder, calls>>

Label2 == [method : Methods, endpoint : Endpoints]
Label3 == [method : Methods, status : Statuses, endpoint : Endpoints]

\* ------------------------------------------------------ frames and items
FrameData(chunk) == [kind |-> "data", chunk |-> chunk]
FrameTrailers(tr) == [kind |-> "trailers", trailers |-> tr]

Ok(x) == [ok |-> TRUE, v |-> x]
Err(x) == [ok |-> FALSE, v |-> x]

\* Frame::into_data / Frame::into_trailers: Ok(payload) or Err(the frame).
IntoData(frame) == IF frame.kind = "data" THEN Ok(frame.chunk) ELSE Err(frame)
IntoTrailers(frame) ==
    IF frame.kind = "trailers" THEN Ok(frame.trailers) ELSE Err(frame)

\* Poll<Option<Result<Frame, Error>>>
PollPending == [t |-> "Pending"]
PollNone == [t |-> "None"]
PollFrameOk(frame) == [t |-> "Frame", frame |-> frame]
PollErr(err) == [t |-> "Err", err |-> err]

Frames == {FrameData(c) : c \in Chunks} \cup {FrameTrailers(t) : t \in TrailerMaps}
BodyItems ==
    {PollPending, PollNone} \cup {PollFrameOk(f) : f \in Frames}
        \cup {PollErr(e) : e \in Errors}

\* -------------------------------------------- classifier (tower_http::classify)
\* classify_error: the failure class of an error value.
ClassifyError(err) == <<"error", err>>

\* classify_eos: Ok(()) or Err(failure class), from the trailers.
ClassifyEos(trailers) ==
    IF IsSome(trailers) /\ trailers.v # "grpc-status:0"
    THEN Err(<<"eos", trailers.v>>)
    ELSE Ok(<<>>)

Classifications == {"ReadyOk", "ReadyErr", "RequiresEos"}

\* --------------------------------------------------------------- Traffic
\* Mutant of Ignores: a path that a group pattern matches is not ignored.
IgnoresUnlessGrouped(t, path) ==
    /\ RouterAt(t.ignore_patterns, path)
    /\ \A g \in GroupLabels : ~RouterAt(t.group_patterns[g], path)

\* Traffic::ignores
Ignores(t, path) == RouterAt(t.ignore_patterns, path)

\* Mutant of ResolveEndpoint: the fallback function is called on every
\* request, and its result is the label.
ResolveEndpointAlwaysFallback(t, rq) ==
    CASE t.endpoint_label = "Exact" -> [label |-> rq.path, fallback_args |-> <<>>]
      [] t.endpoint_label = "MatchedPath" ->
            [label |-> IF IsSome(rq.matched) THEN rq.matched.v ELSE rq.path,
             fallback_args |-> <<>>]
      [] t.endpoint_label = "MatchedPathWithFallbackFn" ->
            [label |-> FallbackFn(rq.path), fallback_args |-> <<rq.path>>]

\* The match on self.endpoint_label: the endpoint label before grouping,
\* and the arguments the fallback function was called with.
ResolveEndpoint(t, rq) ==
    CASE t.endpoint_label = "Exact" -> [label |-> rq.path, fallback_args |-> <<>>]
      [] t.endpoint_label = "MatchedPath" ->
            [label |-> IF IsSome(rq.matched) THEN rq.matched.v ELSE rq.path,
             fallback_args |-> <<>>]
      [] t.endpoint_label = "MatchedPathWithFallbackFn" ->
            IF IsSome(rq.matched)
            THEN [label |-> rq.matched.v, fallback_args |-> <<>>]
            ELSE [label |-> FallbackFn(rq.path), fallback_args |-> <<rq.path>>]

\* Mutant of ApplyGroupPattern: the label is never rewritten.
ApplyGroupPatternKeepsLabel(t, path) == path

\* Mutant of ApplyGroupPattern: the map is iterated in one order for the
\* first request and in the reverse order for the requests after it.
ApplyGroupPatternOrderChanges(t, path) ==
    LET hits == {i \in 1..Len(t.group_order) :
                    RouterAt(t.group_patterns[t.group_order[i]], path)}
    IN IF hits = {} THEN path
       ELSE IF hooks[1] = <<>>
            THEN t.group_order[CHOOSE i \in hits : \A j \in hits : i <= j]
            ELSE t.group_order[CHOOSE i \in hits : \A j \in hits : i >= j]

\* Traffic::apply_group_pattern: the first group, in the iteration order of
\* the map, whose router matches the label; the label itself if none does.
ApplyGroupPattern(t, path) ==
    LET hits == {i \in 1..Len(t.group_order) :
                    RouterAt(t.group_patterns[t.group_order[i]], path)}
    IN IF hits = {} THEN path
       ELSE t.group_order[CHOOSE i \in hits : \A j \in hits : i <= j]

AsLabel(method) == method

\* Mutant of TrafficPrepare: the ignore patterns are not consulted.
TrafficPrepareNeverIgnores(t, rq) ==
    Some([endpoint |-> ApplyGroupPattern(t, ResolveEndpoint(t, rq).label),
          method |-> AsLabel(rq.method),
          body_size |-> 0,
          exact_body_size_called |-> FALSE])

\* Traffic::prepare: None for an ignored path, else the MetricsData.
TrafficPrepare(t, rq) ==
    IF Ignores(t, rq.path)
    THEN None
    ELSE Some([endpoint |-> ApplyGroupPattern(t, ResolveEndpoint(t, rq).label),
               method |-> AsLabel(rq.method),
               body_size |-> 0,
               exact_body_size_called |-> FALSE])

\* The calls of the fallback function made by Traffic::prepare: none for an
\* ignored path, which returns before the label is resolved.
PrepareFallbackArgs(t, rq) ==
    IF Ignores(t, rq.path) THEN <<>> ELSE ResolveEndpoint(t, rq).fallback_args

\* str::parse::<u64> of the Content-Length header value.
ParseU64(s) == IF s = "7" THEN Some(7) ELSE None


\* The metric names fixed at compile time.
AXUM_HTTP_REQUESTS_PENDING == "axum_http_requests_pending"
AXUM_HTTP_REQUESTS_DURATION_SECONDS == "axum_http_requests_duration_seconds"
AXUM_HTTP_REQUESTS_TOTAL == "axum_http_requests_total"
AXUM_HTTP_RESPONSE_BODY_SIZE == "axum_http_response_body_size"

\* OnceCell::get().map_or(default, ..)
GetOr(cell, default) == IF IsSome(cell) THEN cell.v ELSE default

\* The names read from the cells: the prefixed one when the cell is set.
TotalNameOf(cells) == GetOr(cells.total, AXUM_HTTP_REQUESTS_TOTAL)
DurationNameOf(cells) ==
    GetOr(cells.duration, AXUM_HTTP_REQUESTS_DURATION_SECONDS)
PendingNameOf(cells) == GetOr(cells.pending, AXUM_HTTP_REQUESTS_PENDING)
BodySizeNameOf(cells) == GetOr(cells.body_size, AXUM_HTTP_RESPONSE_BODY_SIZE)

\* utils: the names in use.
RequestsTotalName == TotalNameOf(prefixed)
RequestsDurationName == DurationNameOf(prefixed)
RequestsPendingName == PendingNameOf(prefixed)
ResponseBodySizeName == BodySizeNameOf(prefixed)

\* Label sets built from the MetricsData and the response status.
PendingLabels(md) == [method |-> md.method, endpoint |-> md.endpoint]
ResponseLabels(md, status) ==
    [method |-> md.method, status |-> status, endpoint |-> md.endpoint]

\* body_size_histogram: one observation of metrics_data.body_size.
BodySizeHistogram(md) ==
    [op |-> "body_size", name |-> ResponseBodySizeName,
     labels |-> [method |-> md.method, endpoint |-> md.endpoint],
     value |-> md.body_size]

\* Mutant of TrafficPrepareOps: the gauge is incremented only while no
\* other request is pending under the same labels.
TrafficPrepareOpsIfIdle(data) ==
    IF IsSome(data) /\ gauge[PendingLabels(data.v)] = 0
    THEN <<[op |-> "gauge_inc", name |-> RequestsPendingName,
             labels |-> PendingLabels(data.v)]>>
    ELSE <<>>

\* Traffic::prepare increments the pending gauge unless the path is ignored.
TrafficPrepareOps(data) ==
    IF IsSome(data)
    THEN <<[op |-> "gauge_inc", name |-> RequestsPendingName,
             labels |-> PendingLabels(data.v)]>>
    ELSE <<>>

\* Mutant of TrafficOnResponse: the pending gauge is not decremented.
TrafficOnResponseNoDecrement(data, status) ==
    IF IsSome(data)
    THEN <<[op |-> "counter_inc", name |-> RequestsTotalName,
             labels |-> ResponseLabels(data.v, status)],
           [op |-> "duration", name |-> RequestsDurationName,
             labels |-> ResponseLabels(data.v, status)]>>
    ELSE <<>>

\* Mutant of TrafficOnResponse: the counter is labelled without the status.
TrafficOnResponseCounterNoStatus(data, status) ==
    IF IsSome(data)
    THEN <<[op |-> "gauge_dec", name |-> RequestsPendingName,
             labels |-> PendingLabels(data.v)],
           [op |-> "counter_inc", name |-> RequestsTotalName,
             labels |-> PendingLabels(data.v)],
           [op |-> "duration", name |-> RequestsDurationName,
             labels |-> ResponseLabels(data.v, status)]>>
    ELSE <<>>

\* Mutant of TrafficOnResponse: the gauge is decremented under the
\* endpoint "/metrics" instead of the endpoint stored by prepare.
TrafficOnResponseDecrementsElsewhere(data, status) ==
    IF IsSome(data)
    THEN <<[op |-> "gauge_dec", name |-> RequestsPendingName,
             labels |-> [PendingLabels(data.v) EXCEPT !.endpoint = "/metrics"]],
           [op |-> "counter_inc", name |-> RequestsTotalName,
             labels |-> ResponseLabels(data.v, status)],
           [op |-> "duration", name |-> RequestsDurationName,
             labels |-> ResponseLabels(data.v, status)]>>
    ELSE <<>>

\* Traffic::on_response: gauge decrement, counter increment and duration
\* observation, unless the data is the None of an ignored request.
TrafficOnResponse(data, status) ==
    IF IsSome(data)
    THEN <<[op |-> "gauge_dec", name |-> RequestsPendingName,
             labels |-> PendingLabels(data.v)],
           [op |-> "counter_inc", name |-> RequestsTotalName,
             labels |-> ResponseLabels(data.v, status)],
           [op |-> "duration", name |-> RequestsDurationName,
             labels |-> ResponseLabels(data.v, status)]>>
    ELSE <<>>

\* Traffic does not override on_eos and on_failure: the trait defaults run,
\* and they do nothing.
TrafficOnEos(data) == <<>>
TrafficOnFailure(data) == <<>>

\* Buf::remaining of a chunk.
Remaining(chunk) == Len(chunk)

\* Mutant of BodySizeRecorderCall: the exact_body_size_called flag is not
\* consulted, every call that carries an exact size records it.
BodySizeRecorderCallIgnoresFlag(chunk, body_size, data) ==
    IF ~IsSome(data) THEN [data |-> data, ops |-> <<>>]
    ELSE LET md == data.v IN
         IF IsSome(body_size)
         THEN LET md2 == [md EXCEPT !.exact_body_size_called = TRUE,
                                    !.body_size = body_size.v]
              IN [data |-> Some(md2), ops |-> <<BodySizeHistogram(md2)>>]
         ELSE LET md2 == [md EXCEPT !.body_size = @ + Remaining(chunk)]
              IN [data |-> Some(md2), ops |-> <<BodySizeHistogram(md2)>>]

\* Mutant of BodySizeRecorderCall: with no exact size the stored size is
\* replaced by the length of the chunk instead of being increased by it.
BodySizeRecorderCallLastChunk(chunk, body_size, data) ==
    IF ~IsSome(data) THEN [data |-> data, ops |-> <<>>]
    ELSE LET md == data.v IN
         IF IsSome(body_size)
         THEN IF ~md.exact_body_size_called
              THEN LET md2 == [md EXCEPT !.exact_body_size_called = TRUE,
                                         !.body_size = body_size.v]
                   IN [data |-> Some(md2), ops |-> <<BodySizeHistogram(md2)>>]
              ELSE [data |-> data, ops |-> <<>>]
         ELSE LET md2 == [md EXCEPT !.body_size = Remaining(chunk)]
              IN [data |-> Some(md2), ops |-> <<BodySizeHistogram(md2)>>]

\* BodySizeRecorder::call: the data after the call and the sink operations made.
BodySizeRecorderCall(chunk, body_size, data) ==
    IF ~IsSome(data)
    THEN [data |-> data, ops |-> <<>>]
    ELSE LET md == data.v IN
         IF IsSome(body_size)
         THEN IF ~md.exact_body_size_called
              THEN LET md2 == [md EXCEPT !.exact_body_size_called = TRUE,
                                         !.body_size = body_size.v]
                   IN [data |-> Some(md2), ops |-> <<BodySizeHistogram(md2)>>]
              ELSE [data |-> data, ops |-> <<>>]
         ELSE LET md2 == [md EXCEPT !.body_size = @ + Remaining(chunk)]
              IN [data |-> Some(md2), ops |-> <<BodySizeHistogram(md2)>>]

\* impl OnBodyChunk for Option<T>: forwards to T when it is Some.
OnBodyChunkCall(on_body_chunk, chunk, body_size, data) ==
    IF IsSome(on_body_chunk)
    THEN BodySizeRecorderCall(chunk, body_size, data)
    ELSE [data |-> data, ops |-> <<>>]

\* ---------------------------------------------------------- hook events
EvPrepare(rq, data, fallback_args) ==
    [h |-> "prepare", request |-> rq, data |-> data,
     fallback_args |-> fallback_args]
EvResponse(status, cls, data) ==
    [h |-> "on_response", status |-> status, cls |-> cls, data |-> data]
EvChunk(chunk, size, data) ==
    [h |-> "chunk", chunk |-> chunk, size |-> size, data |-> data]
EvEos(trailers, classification, data) ==
    [h |-> "on_eos", trailers |-> trailers,
     classification |-> classification, data |-> data]
EvFailure(at, class, data) ==
    [h |-> "on_failure", at |-> at, class |-> class, data |-> data]

\* ------------------------------------------- ResponseBody::poll_frame
NoBody ==
    [exists |-> FALSE, parts |-> None, callbacks_data |-> None,
     on_body_chunk |-> None, content_length |-> None]

\* Mutant of TakeParts: the slot is read but not emptied.
TakePartsKeeps(b) == b

\* Option::take on the (classifier, callbacks) slot: the slot is empty after.
TakeParts(b) == [b EXCEPT !.parts = None]

\* size_hint().exact().or_else(|| content_length ... parse().ok())
BodySize(size_exact, content_length) ==
    IF IsSome(size_exact) THEN size_exact
    ELSE IF IsSome(content_length) THEN ParseU64(content_length.v)
    ELSE None

\* Mutant of ObserveChunk: an empty chunk is not shown to the observer.
ObserveChunkSkipsEmpty(b, chunk, body_size) ==
    LET c == OnBodyChunkCall(b.on_body_chunk, chunk, body_size, b.callbacks_data)
    IN IF chunk = <<>>
       THEN [body |-> b, events |-> <<>>, ops |-> <<>>]
       ELSE [body |-> [b EXCEPT !.callbacks_data = c.data],
             events |-> <<EvChunk(chunk, body_size, c.data)>>,
             ops |-> c.ops]

\* Mutant of ObserveChunk: the observer works on a copy of the state, and
\* the state of the body stays as it was.
ObserveChunkOnCopy(b, chunk, body_size) ==
    LET c == OnBodyChunkCall(b.on_body_chunk, chunk, body_size, b.callbacks_data)
    IN [body |-> b,
        events |-> <<EvChunk(chunk, body_size, c.data)>>,
        ops |-> c.ops]

\* Ok(chunk) arm of into_data: the chunk observer runs on the chunk.
ObserveChunk(b, chunk, body_size) ==
    LET c == OnBodyChunkCall(b.on_body_chunk, chunk, body_size, b.callbacks_data)
    IN [body |-> [b EXCEPT !.callbacks_data = c.data],
        events |-> <<EvChunk(chunk, body_size, c.data)>>,
        ops |-> c.ops]

\* Mutant of EosHook: an end of stream classified as a failure is reported
\* through on_failure.
EosHookFailureOnErrClass(b, trailers) ==
    IF IsSome(b.parts)
    THEN [body |-> TakeParts(b),
          events |-> IF ClassifyEos(trailers).ok
                     THEN <<EvEos(trailers, ClassifyEos(trailers),
                                  b.callbacks_data)>>
                     ELSE <<EvFailure("Body", ClassifyEos(trailers).v,
                                      b.callbacks_data)>>,
          ops |-> <<>>]
    ELSE [body |-> TakeParts(b), events |-> <<>>, ops |-> <<>>]

\* Mutant of EosHook: on_eos fires but the slot is left filled.
EosHookKeepsParts(b, trailers) ==
    IF IsSome(b.parts)
    THEN [body |-> b,
          events |-> <<EvEos(trailers, ClassifyEos(trailers), b.callbacks_data)>>,
          ops |-> <<>>]
    ELSE [body |-> b, events |-> <<>>, ops |-> <<>>]

\* Ok(trailers) arm of into_trailers and the None arm: on_eos if the slot
\* still holds the classifier and the callbacks.
EosHook(b, trailers) ==
    IF IsSome(b.parts)
    THEN [body |-> TakeParts(b),
          events |-> <<EvEos(trailers, ClassifyEos(trailers), b.callbacks_data)>>,
          ops |-> TrafficOnEos(b.callbacks_data)]
    ELSE [body |-> TakeParts(b), events |-> <<>>, ops |-> <<>>]

\* Mutant of FailureHook: the hook fires but the slot is left filled.
FailureHookKeepsParts(b, err) ==
    IF IsSome(b.parts)
    THEN [body |-> b,
          events |-> <<EvFailure("Body", ClassifyError(err), b.callbacks_data)>>,
          ops |-> <<>>]
    ELSE [body |-> b, events |-> <<>>, ops |-> <<>>]

\* Some(Err(err)) arm: on_failure(FailedAt::Body, ..) if the slot is filled.
FailureHook(b, err) ==
    IF IsSome(b.parts)
    THEN [body |-> TakeParts(b),
          events |-> <<EvFailure("Body", ClassifyError(err), b.callbacks_data)>>,
          ops |-> TrafficOnFailure(b.callbacks_data)]
    ELSE [body |-> TakeParts(b), events |-> <<>>, ops |-> <<>>]

\* Mutant of FrameArm: a data frame is rebuilt from an empty chunk.
FrameArmRebuildsEmpty(b, frame, body_size) ==
    LET d == IntoData(frame) IN
    IF d.ok
    THEN LET o == ObserveChunk(b, d.v, body_size)
         IN [body |-> o.body, ret |-> PollFrameOk(FrameData(<<>>)),
             events |-> o.events, ops |-> o.ops]
    ELSE LET e == EosHook(b, Some(frame.trailers))
         IN [body |-> e.body, ret |-> PollFrameOk(FrameTrailers(frame.trailers)),
             events |-> e.events, ops |-> e.ops]

\* Mutant of FrameArm: the end-of-stream hook runs on every frame, also on
\* a data frame.
FrameArmEosOnData(b, frame, body_size) ==
    LET d == IntoData(frame) IN
    IF d.ok
    THEN LET o == ObserveChunk(b, d.v, body_size)
             e == EosHook(o.body, None)
         IN [body |-> e.body, ret |-> PollFrameOk(FrameData(d.v)),
             events |-> o.events \o e.events, ops |-> o.ops \o e.ops]
    ELSE LET e == EosHook(b, Some(frame.trailers))
         IN [body |-> e.body, ret |-> PollFrameOk(FrameTrailers(frame.trailers)),
             events |-> e.events, ops |-> e.ops]

\* Some(Ok(frame)) arm.
FrameArm(b, frame, body_size) ==
    LET d == IntoData(frame)
        a == IF d.ok
             THEN LET o == ObserveChunk(b, d.v, body_size)
                  IN [body |-> o.body, frame |-> FrameData(d.v),
                      events |-> o.events, ops |-> o.ops]
             ELSE [body |-> b, frame |-> d.v, events |-> <<>>, ops |-> <<>>]
        t == IntoTrailers(a.frame)
    IN IF t.ok
       THEN LET e == EosHook(a.body, Some(t.v))
            IN [body |-> e.body, ret |-> PollFrameOk(FrameTrailers(t.v)),
                events |-> a.events \o e.events, ops |-> a.ops \o e.ops]
       ELSE [body |-> a.body, ret |-> PollFrameOk(t.v),
             events |-> a.events, ops |-> a.ops]

\* Mutant of ErrArm: the hook runs and the stream is ended instead of
\* returning the error.
ErrArmSwallows(b, err) ==
    LET f == FailureHook(b, err)
    IN [body |-> f.body, ret |-> PollNone, events |-> f.events, ops |-> f.ops]

\* Some(Err(err)) arm: the hook, then the same error is returned.
ErrArm(b, err) ==
    LET f == FailureHook(b, err)
    IN [body |-> f.body, ret |-> PollErr(err), events |-> f.events, ops |-> f.ops]

\* Mutant of NoneArm: the end of the inner body is passed on without the
\* end-of-stream hook.
NoneArmSkipsEos(b) ==
    [body |-> b, ret |-> PollNone, events |-> <<>>, ops |-> <<>>]

\* None arm.
NoneArm(b) ==
    LET e == EosHook(b, None)
    IN [body |-> e.body, ret |-> PollNone, events |-> e.events, ops |-> e.ops]

\* Mutant of PollFrame: a Pending inner body is treated as its end.
PollFramePendingIsEnd(b, res, size_exact) ==
    LET body_size == BodySize(size_exact, b.content_length) IN
    CASE res.t = "Pending" ->
            [body |-> NoneArm(b).body, ret |-> PollPending,
             events |-> NoneArm(b).events, ops |-> NoneArm(b).ops]
      [] res.t = "Frame" -> FrameArm(b, res.frame, body_size)
      [] res.t = "Err" -> ErrArm(b, res.err)
      [] res.t = "None" -> NoneArm(b)

\* poll_frame on wrapper b when the inner body, whose exact size hint is
\* size_exact, answers the poll with res.
PollFrame(b, res, size_exact) ==
    LET body_size == BodySize(size_exact, b.content_length) IN
    CASE res.t = "Pending" ->
            [body |-> b, ret |-> PollPending, events |-> <<>>, ops |-> <<>>]
      [] res.t = "Frame" -> FrameArm(b, res.frame, body_size)
      [] res.t = "Err" -> ErrArm(b, res.err)
      [] res.t = "None" -> NoneArm(b)


\* --------------------------------------------------------- metrics sink
OpCount(ops, op, l) ==
    Cardinality({i \in 1..Len(ops) : ops[i].op = op /\ ops[i].labels = l})

SelectOps(ops, op) == SelectSeq(ops, LAMBDA o : o.op = op)

\* The sink after the operations ops: gauge!(..).increment / decrement,
\* counter!(..).increment, histogram!(..).record.
ApplySink(ops) ==
    /\ gauge' = [l \in Label2 |->
                    gauge[l] + OpCount(ops, "gauge_inc", l)
                             - OpCount(ops, "gauge_dec", l)]
    /\ gaugeIncs' = gaugeIncs + Len(SelectOps(ops, "gauge_inc"))
    /\ gaugeDecs' = gaugeDecs + Len(SelectOps(ops, "gauge_dec"))
    /\ counter' = [l \in Label3 |-> counter[l] + OpCount(ops, "counter_inc", l)]
    /\ duration' = [l \in Label3 |-> duration[l] + OpCount(ops, "duration", l)]
    /\ bodySizes' = bodySizes \o SelectOps(ops, "body_size")
    /\ samples' = samples \cup
            {[name |-> ops[i].name, labels |-> ops[i].labels] :
                i \in 1..Len(ops)}

\* ------------------------------------------------------ LifeCycle::call
NoFuture ==
    [state |-> "absent", classifier |-> None, callbacks |-> None,
     callbacks_data |-> None, on_body_chunk |-> None,
     on_exact_body_size |-> None, pendings |-> 0, steps |-> <<>>]

\* The statements of LifeCycle::call in program order: prepare on the
\* callbacks of the service, make_classifier, the call of the inner
\* service, the clones that fill the future.
CallSteps == <<"prepare", "make_classifier", "inner.call", "callbacks.clone">>

\* The on_body_chunk of the layer: Some(BodySizeRecorder) when body size
\* tracking is enabled.
OnBodyChunkOf(enable_body_size) ==
    IF enable_body_size THEN Some("BodySizeRecorder") ELSE None
LayerOnBodyChunk == layer.on_body_chunk

\* No layer built yet, and the layer built from a Traffic.
NoLayer == [built |-> FALSE, traffic |-> TrafficNew, on_body_chunk |-> None]
NewLayer(t, enable_body_size) ==
    [built |-> TRUE, traffic |-> t,
     on_body_chunk |-> OnBodyChunkOf(enable_body_size)]

\* The ResponseFuture built by call: every slot filled, the callbacks a clone.
NewFuture(data) ==
    [state |-> "live", classifier |-> Some("classifier"),
     callbacks |-> Some("Traffic"), callbacks_data |-> Some(data),
     on_body_chunk |-> Some(LayerOnBodyChunk),
     on_exact_body_size |-> Some("on_exact_body_size"), pendings |-> 0,
     steps |-> CallSteps]

\* The PREFIXED_* statics before any set.
NoPrefix ==
    [total |-> None, duration |-> None, pending |-> None, body_size |-> None]

Builders == 1..NumBuilders

\* MetricLayerBuilder::new
NewBuilder ==
    [state |-> "LayerOnly", traffic |-> TrafficNew, metric_handle |-> None,
     no_initialize_metrics |-> FALSE, metric_prefix |-> None,
     enable_body_size |-> FALSE]

\* A builder consumed by build or build_pair.
BuiltBuilder == [NewBuilder EXCEPT !.state = "built"]

NewInner == [produced |-> <<>>, end_stream |-> FALSE, size_exact |-> None]

\* The requests and the sink before any request.
InitRequests ==
    /\ fut = [r \in Reqs |-> NoFuture]
    /\ handler = [r \in Reqs |-> None]
    /\ result = [r \in Reqs |-> None]
    /\ body = [r \in Reqs |-> NoBody]
    /\ inner = [r \in Reqs |-> NewInner]
    /\ out = [r \in Reqs |-> <<>>]
    /\ cons = [r \in Reqs |-> "none"]
    /\ hooks = [r \in Reqs |-> <<>>]
    /\ gauge = [l \in Label2 |-> 0]
    /\ gaugeIncs = 0
    /\ gaugeDecs = 0
    /\ counter = [l \in Label3 |-> 0]
    /\ duration = [l \in Label3 |-> 0]
    /\ bodySizes = <<>>
    /\ samples = {}

\* The state the lifecycle specifications start in: the layer was built
\* with the ignore patterns IgnorePatterns and body size tracking, and is
\* mounted; no prefix was set.
Init ==
    /\ InitRequests
    /\ builder = [b \in Builders |-> BuiltBuilder]
    /\ layer = NewLayer(DefaultTraffic, EnableBodySize)
    /\ prefixed = NoPrefix
    /\ described = {}
    /\ recorder = None
    /\ calls = <<>>

\* The state of a process that has made its builders and nothing else.
InitBuild ==
    /\ InitRequests
    /\ builder = [b \in Builders |-> NewBuilder]
    /\ layer = NoLayer
    /\ prefixed = NoPrefix
    /\ described = {}
    /\ recorder = None
    /\ calls = <<>>

\* Mutant of Call: the future is made without calling prepare.
CallWithoutPrepare(r, rq) ==
    /\ layer.built
    /\ fut[r].state = "absent"
    /\ fut' = [fut EXCEPT ![r] = NewFuture(None)]
    /\ UNCHANGED <<handler, result, body, inner, out, cons, hooks>>
    /\ UNCHANGED metricVars
    /\ UNCHANGED configVars

\* LifeCycle::call: prepare, make_classifier, inner.call, the ResponseFuture.
Call(r, rq) ==
    /\ layer.built
    /\ fut[r].state = "absent"
    /\ LET data == TrafficPrepare(layer.traffic, rq) IN
        /\ hooks' = [hooks EXCEPT ![r] =
                Append(@, EvPrepare(rq, data,
                                    PrepareFallbackArgs(layer.traffic, rq)))]
        /\ ApplySink(TrafficPrepareOps(data))
        /\ fut' = [fut EXCEPT ![r] = NewFuture(data)]
    /\ UNCHANGED <<handler, result, body, inner, out, cons>>
    /\ UNCHANGED configVars


\* ------------------------------------------------ ResponseFuture::poll
\* classify_response: Ready(outcome) from the headers, or RequiresEos with
\* the end-of-stream classifier.
ClassifyResponse(response) ==
    CASE response.class = "ReadyOk" -> [t |-> "Ready", outcome |-> Ok(<<>>)]
      [] response.class = "ReadyErr" ->
            [t |-> "Ready", outcome |-> Err(<<"status", response.status>>)]
      [] response.class = "RequiresEos" ->
            [t |-> "RequiresEos", classify_eos |-> "classify_eos"]

\* Whether every Option slot of the future is still filled (take().expect()).
SlotsFilled(f) ==
    /\ IsSome(f.classifier)
    /\ IsSome(f.callbacks)
    /\ IsSome(f.callbacks_data)
    /\ IsSome(f.on_body_chunk)
    /\ IsSome(f.on_exact_body_size)

\* Mutant of TakeSlots: the slots are read but left filled.
TakeSlotsKeeps(f) == [f EXCEPT !.state = "complete"]

\* The future after the five take() calls.
TakeSlots(f) ==
    [f EXCEPT !.state = "complete", !.classifier = None, !.callbacks = None,
              !.callbacks_data = None, !.on_body_chunk = None,
              !.on_exact_body_size = None]

\* Mutant of ReadyArm: the callbacks are moved into the parts of the body.
ReadyArmKeepsParts(f, response, classification) ==
    LET data == f.callbacks_data.v IN
    [fut |-> TakeSlots(f),
     ret |-> [t |-> "Ok", status |-> response.status,
              content_length |-> response.content_length],
     events |-> <<EvResponse(response.status,
                             [t |-> "Ready", outcome |-> classification], data)>>,
     ops |-> TrafficOnResponse(data, response.status),
     body |-> [exists |-> TRUE,
               parts |-> Some(<<"classify_eos", f.callbacks.v>>),
               callbacks_data |-> data,
               on_body_chunk |-> f.on_body_chunk.v,
               content_length |-> response.content_length]]

\* Ready arm: on_response with Ready(classification), body with parts None.
ReadyArm(f, response, classification) ==
    LET data == f.callbacks_data.v IN
    [fut |-> TakeSlots(f),
     ret |-> [t |-> "Ok", status |-> response.status,
              content_length |-> response.content_length],
     events |-> <<EvResponse(response.status,
                             [t |-> "Ready", outcome |-> classification], data)>>,
     ops |-> TrafficOnResponse(data, response.status),
     body |-> [exists |-> TRUE, parts |-> None, callbacks_data |-> data,
               on_body_chunk |-> f.on_body_chunk.v,
               content_length |-> response.content_length]]

\* Mutant of RequiresEosArm: on_response is handed the end-of-stream
\* classifier, which is then missing from the parts of the body.
RequiresEosArmNotErased(f, response, classify_eos) ==
    LET data == f.callbacks_data.v IN
    [fut |-> TakeSlots(f),
     ret |-> [t |-> "Ok", status |-> response.status,
              content_length |-> response.content_length],
     events |-> <<EvResponse(response.status,
                             [t |-> "RequiresEos", classify_eos |-> classify_eos],
                             data)>>,
     ops |-> TrafficOnResponse(data, response.status),
     body |-> [exists |-> TRUE, parts |-> None, callbacks_data |-> data,
               on_body_chunk |-> f.on_body_chunk.v,
               content_length |-> response.content_length]]

\* RequiresEos arm: on_response with RequiresEos(()), the end-of-stream
\* classifier and the callbacks move into the parts of the body.
RequiresEosArm(f, response, classify_eos) ==
    LET data == f.callbacks_data.v IN
    [fut |-> TakeSlots(f),
     ret |-> [t |-> "Ok", status |-> response.status,
              content_length |-> response.content_length],
     events |-> <<EvResponse(response.status,
                             [t |-> "RequiresEos", classify_eos |-> "()"], data)>>,
     ops |-> TrafficOnResponse(data, response.status),
     body |-> [exists |-> TRUE,
               parts |-> Some(<<classify_eos, f.callbacks.v>>),
               callbacks_data |-> data,
               on_body_chunk |-> f.on_body_chunk.v,
               content_length |-> response.content_length]]

\* Mutant of HandlerErrArm: on_response is called before on_failure.
HandlerErrArmAlsoResponds(f, err) ==
    LET data == f.callbacks_data.v IN
    [fut |-> TakeSlots(f),
     ret |-> [t |-> "Err", err |-> err],
     events |-> <<EvResponse(500, [t |-> "Ready", outcome |-> Err(err)], data),
                  EvFailure("Response", ClassifyError(err), data)>>,
     ops |-> <<>>,
     body |-> NoBody]

\* Err arm: on_failure(FailedAt::Response, ..), then the same error.
HandlerErrArm(f, err) ==
    LET data == f.callbacks_data.v IN
    [fut |-> TakeSlots(f),
     ret |-> [t |-> "Err", err |-> err],
     events |-> <<EvFailure("Response", ClassifyError(err), data)>>,
     ops |-> TrafficOnFailure(data),
     body |-> NoBody]

\* poll on future f when the inner handler future answers with res.
FuturePoll(f, res) ==
    IF res.t = "Pending"
    THEN [fut |-> [f EXCEPT !.pendings = @ + 1], ret |-> [t |-> "Pending"],
          events |-> <<>>, ops |-> <<>>, body |-> NoBody]
    ELSE IF ~SlotsFilled(f)
    THEN [fut |-> [f EXCEPT !.state = "panicked"], ret |-> [t |-> "Panic"],
          events |-> <<>>, ops |-> <<>>, body |-> NoBody]
    ELSE IF res.t = "Ok"
    THEN LET classification == ClassifyResponse(res.response) IN
         IF classification.t = "Ready"
         THEN ReadyArm(f, res.response, classification.outcome)
         ELSE RequiresEosArm(f, res.response, classification.classify_eos)
    ELSE HandlerErrArm(f, res.err)

\* One poll of the live ResponseFuture of request r; res is the answer of
\* the inner handler future.
PollFuture(r, res) ==
    /\ fut[r].state = "live"
    /\ res.t = "Pending" => fut[r].pendings < MaxPending
    /\ LET p == FuturePoll(fut[r], res) IN
        /\ fut' = [fut EXCEPT ![r] = p.fut]
        /\ hooks' = [hooks EXCEPT ![r] = @ \o p.events]
        /\ ApplySink(p.ops)
        /\ IF p.ret.t \in {"Ok", "Err"}
           THEN /\ handler' = [handler EXCEPT ![r] = Some(res)]
                /\ result' = [result EXCEPT ![r] = Some(p.ret)]
           ELSE UNCHANGED <<handler, result>>
        /\ IF p.ret.t = "Ok"
           THEN /\ body' = [body EXCEPT ![r] = p.body]
                /\ inner' = [inner EXCEPT ![r] =
                                [NewInner EXCEPT
                                    !.end_stream = res.response.body.end_stream,
                                    !.size_exact = res.response.body.size_exact]]
                /\ cons' = [cons EXCEPT ![r] = "reading"]
           ELSE UNCHANGED <<body, inner, cons>>
    /\ UNCHANGED out
    /\ UNCHANGED configVars

\* A poll of the ResponseFuture after it completed, the inner future
\* answering Ready again: the first take().expect() panics.
PollFutureAgain(r, res) ==
    /\ fut[r].state = "complete"
    /\ res.t # "Pending"
    /\ LET p == FuturePoll(fut[r], res) IN
        /\ fut' = [fut EXCEPT ![r] = p.fut]
        /\ hooks' = [hooks EXCEPT ![r] = @ \o p.events]
        /\ ApplySink(p.ops)
    /\ UNCHANGED <<handler, result, body, inner, out, cons>>
    /\ UNCHANGED configVars

\* ------------------------------------------------ polling the body
\* Whether the body wrapper of r returned a final item on its last poll.
IsFinalItem(item) ==
    \/ item.t \in {"None", "Err"}
    \/ item.t = "Frame" /\ item.frame.kind = "trailers"

\* ResponseBody::is_end_stream and size_hint: the inner body's answers.
InnerIsEndStream(r) == inner[r].end_stream
InnerSizeHint(r) == inner[r].size_exact
IsEndStream(r) == InnerIsEndStream(r)
SizeHint(r) == InnerSizeHint(r)

\* What the inner body may answer: None while it reports the end of the
\* stream (is_end_stream() = true means that poll_frame returns None),
\* anything otherwise, also after a trailers frame, an error or None.
InnerMayAnswer(r, res) == inner[r].end_stream => res = PollNone

\* One poll_frame on the wrapped body of request r: the inner body answers
\* res and then reports the hints nxt.
PollBody(r, res, nxt) ==
    /\ body[r].exists
    /\ cons[r] = "reading"
    /\ Len(out[r]) < MaxPolls
    /\ InnerMayAnswer(r, res)
    /\ LET p == PollFrame(body[r], res, InnerSizeHint(r)) IN
        /\ body' = [body EXCEPT ![r] = p.body]
        /\ out' = [out EXCEPT ![r] = Append(@, p.ret)]
        /\ hooks' = [hooks EXCEPT ![r] = @ \o p.events]
        /\ ApplySink(p.ops)
    /\ inner' = [inner EXCEPT ![r] =
                    [produced |-> Append(@.produced, res),
                     end_stream |-> nxt.end_stream,
                     size_exact |-> nxt.size_exact]]
    /\ UNCHANGED <<fut, handler, result, cons>>
    /\ UNCHANGED configVars

\* The consumer stops reading: the body yielded its final item, or
\* is_end_stream() answered true.
ConsumerFinish(r) ==
    /\ body[r].exists
    /\ cons[r] = "reading"
    /\ \/ IsEndStream(r)
       \/ Len(out[r]) > 0 /\ IsFinalItem(out[r][Len(out[r])])
    /\ cons' = [cons EXCEPT ![r] = "finished"]
    /\ UNCHANGED <<fut, handler, result, body, inner, out, hooks>>
    /\ UNCHANGED metricVars
    /\ UNCHANGED configVars

\* ------------------------------------------------------- cancellation
\* Mutant of FutureDrop: dropping the future releases the pending gauge.
FutureDropReleasesGauge(f) ==
    [fut |-> [f EXCEPT !.state = "dropped", !.classifier = None,
                       !.callbacks = None, !.callbacks_data = None,
                       !.on_body_chunk = None, !.on_exact_body_size = None],
     events |-> <<>>,
     ops |-> IF IsSome(f.callbacks_data) /\ IsSome(f.callbacks_data.v)
             THEN <<[op |-> "gauge_dec", name |-> RequestsPendingName,
                      labels |-> PendingLabels(f.callbacks_data.v.v)]>>
             ELSE <<>>]

\* Dropping a ResponseFuture: the struct has no Drop implementation, its
\* fields are dropped and no hook or sink operation runs.
FutureDrop(f) ==
    [fut |-> [f EXCEPT !.state = "dropped", !.classifier = None,
                       !.callbacks = None, !.callbacks_data = None,
                       !.on_body_chunk = None, !.on_exact_body_size = None],
     events |-> <<>>,
     ops |-> <<>>]

\* Dropping a ResponseBody: no Drop implementation either; the parts are
\* dropped with it.
BodyDrop(b) ==
    [body |-> [b EXCEPT !.parts = None], events |-> <<>>, ops |-> <<>>]

\* The caller drops the future of request r before it resolved.
DropFuture(r) ==
    /\ fut[r].state = "live"
    /\ LET d == FutureDrop(fut[r]) IN
        /\ fut' = [fut EXCEPT ![r] = d.fut]
        /\ hooks' = [hooks EXCEPT ![r] = @ \o d.events]
        /\ ApplySink(d.ops)
    /\ UNCHANGED <<handler, result, body, inner, out, cons>>
    /\ UNCHANGED configVars

\* The consumer drops the body of request r while it is reading it.
DropBody(r) ==
    /\ body[r].exists
    /\ cons[r] = "reading"
    /\ LET d == BodyDrop(body[r]) IN
        /\ body' = [body EXCEPT ![r] = d.body]
        /\ hooks' = [hooks EXCEPT ![r] = @ \o d.events]
        /\ ApplySink(d.ops)
    /\ cons' = [cons EXCEPT ![r] = "dropped"]
    /\ UNCHANGED <<fut, handler, result, inner, out>>
    /\ UNCHANGED configVars

\* ---------------------------------------------------- MetricLayerBuilder
\* The builder methods of the impl for every state S take a builder that
\* is LayerOnly or Paired.
Configurable(b) == builder[b].state \in {"LayerOnly", "Paired"}

\* A panic inside a builder method: the builder is lost.
Panicked(bl) == [bl EXCEPT !.state = "panicked"]

\* Traffic::with_ignore_pattern, the insert having succeeded.
TrafficWithIgnorePattern(t, pat) ==
    [t EXCEPT !.ignore_patterns = @ \cup {pat}]

\* with_ignore_pattern: Router::insert(..).expect("good route specs").
WithIgnorePattern(b, pat) ==
    /\ Configurable(b)
    /\ builder' = [builder EXCEPT ![b] =
            IF Conflicts(@.traffic.ignore_patterns, pat)
            THEN Panicked(@)
            ELSE [@ EXCEPT !.traffic = TrafficWithIgnorePattern(@, pat)]]
    /\ calls' = Append(calls, <<b, "with_ignore_pattern", pat>>)
    /\ UNCHANGED <<layer, prefixed, described, recorder>>
    /\ UNCHANGED <<requestVars, metricVars>>

\* The orders a HashMap may iterate the keys ks in.
Orders(ks) ==
    {o \in [1..Cardinality(ks) -> ks] :
        \A i, j \in 1..Cardinality(ks) : o[i] = o[j] => i = j}

Keys(t) == {t.group_order[i] : i \in 1..Len(t.group_order)}

\* Traffic::with_group_patterns_as, every insert having succeeded: the
\* patterns join the router of the group; a new key leaves the map in the
\* iteration order ord.
TrafficWithGroupPatternsAs(t, g, pats, ord) ==
    [t EXCEPT !.group_patterns[g] = @ \cup pats,
              !.group_order = IF g \in Keys(t) THEN @ ELSE ord]

\* with_group_patterns_as: entry(group).and_modify(..).or_insert_with(..),
\* each Router::insert(..).expect("good route specs").
WithGroupPatternsAs(b, g, pats, ord) ==
    /\ Configurable(b)
    /\ ord \in Orders(Keys(builder[b].traffic) \cup {g})
    /\ builder' = [builder EXCEPT ![b] =
            IF \E pat \in pats : Conflicts(@.traffic.group_patterns[g], pat)
            THEN Panicked(@)
            ELSE [@ EXCEPT !.traffic =
                        TrafficWithGroupPatternsAs(@, g, pats, ord)]]
    /\ calls' = Append(calls, <<b, "with_group_patterns_as", g>>)
    /\ UNCHANGED <<layer, prefixed, described, recorder>>
    /\ UNCHANGED <<requestVars, metricVars>>

\* with_endpoint_label_type
WithEndpointLabelType(b, endpoint_label) ==
    /\ Configurable(b)
    /\ builder' = [builder EXCEPT ![b].traffic.endpoint_label = endpoint_label]
    /\ UNCHANGED <<layer, prefixed, described, recorder, calls>>
    /\ UNCHANGED <<requestVars, metricVars>>

\* enable_response_body_size
EnableResponseBodySize(b, enable) ==
    /\ Configurable(b)
    /\ builder' = [builder EXCEPT ![b].enable_body_size = enable]
    /\ UNCHANGED <<layer, prefixed, described, recorder, calls>>
    /\ UNCHANGED <<requestVars, metricVars>>

\* no_initialize_metrics
NoInitializeMetrics(b) ==
    /\ Configurable(b)
    /\ builder' = [builder EXCEPT ![b].no_initialize_metrics = TRUE]
    /\ UNCHANGED <<layer, prefixed, described, recorder, calls>>
    /\ UNCHANGED <<requestVars, metricVars>>

\* with_prefix, a method of the LayerOnly builder.
WithPrefix(b, prefix) ==
    /\ builder[b].state = "LayerOnly"
    /\ builder' = [builder EXCEPT ![b].metric_prefix = Some(prefix)]
    /\ UNCHANGED <<layer, prefixed, described, recorder, calls>>
    /\ UNCHANGED <<requestVars, metricVars>>

\* build: GenericMetricLayer::from_builder makes the layer from the Traffic
\* and enable_body_size of the builder.
Build(b) ==
    /\ builder[b].state = "LayerOnly"
    /\ layer' = NewLayer(builder[b].traffic, builder[b].enable_body_size)
    /\ builder' = [builder EXCEPT ![b].state = "built"]
    /\ UNCHANGED <<prefixed, described, recorder, calls>>
    /\ UNCHANGED <<requestVars, metricVars>>

\* format!("{}_http_requests_total", prefix) and the like.
Format(prefix, suffix) == prefix \o suffix

\* Mutant of OnceCellSet: a filled cell is overwritten.
OnceCellSetOverwrites(cell, value) == [ok |-> TRUE, cell |-> Some(value)]

\* OnceCell::set: Ok and the cell filled if it was empty, Err and the cell
\* as it was otherwise.
OnceCellSet(cell, value) ==
    IF IsSome(cell) THEN [ok |-> FALSE, cell |-> cell]
    ELSE [ok |-> TRUE, cell |-> Some(value)]

\* set_prefix: the four set(..).expect(..) in their order; the first Err
\* panics and the cells after it are not touched.
SetPrefix(cells, prefix) ==
    LET s1 == OnceCellSet(cells.total, Format(prefix, "_http_requests_total"))
        c1 == [cells EXCEPT !.total = s1.cell]
        s2 == OnceCellSet(c1.duration,
                          Format(prefix, "_http_requests_duration_seconds"))
        c2 == [c1 EXCEPT !.duration = s2.cell]
        s3 == OnceCellSet(c2.pending, Format(prefix, "_http_requests_pending"))
        c3 == [c2 EXCEPT !.pending = s3.cell]
        s4 == OnceCellSet(c3.body_size,
                          Format(prefix, "_http_response_body_size"))
        c4 == [c3 EXCEPT !.body_size = s4.cell]
    IN IF ~s1.ok THEN [ok |-> FALSE, cells |-> c1]
       ELSE IF ~s2.ok THEN [ok |-> FALSE, cells |-> c2]
       ELSE IF ~s3.ok THEN [ok |-> FALSE, cells |-> c3]
       ELSE [ok |-> s4.ok, cells |-> c4]

\* describe_metrics: the names in use are described, the body size one only
\* with body size tracking.
DescribeMetrics(cells, enable_body_size) ==
    {TotalNameOf(cells), PendingNameOf(cells), DurationNameOf(cells)}
        \cup IF enable_body_size THEN {BodySizeNameOf(cells)} ELSE {}

\* Mutant of FromLayerOnly: describe_metrics runs before set_prefix, on
\* the names in use before the prefix of the builder is installed.
FromLayerOnlyDescribesFirst(bl, cells, desc) ==
    LET sp == IF IsSome(bl.metric_prefix)
              THEN SetPrefix(cells, bl.metric_prefix.v)
              ELSE [ok |-> TRUE, cells |-> cells]
    IN [ok |-> sp.ok, cells |-> sp.cells,
        described |-> IF ~bl.no_initialize_metrics
                      THEN desc \cup DescribeMetrics(cells, bl.enable_body_size)
                      ELSE desc]

\* from_layer_only: set_prefix if the builder has a prefix, then
\* describe_metrics unless no_initialize_metrics; ok is FALSE on a panic.
FromLayerOnly(bl, cells, desc) ==
    LET sp == IF IsSome(bl.metric_prefix)
              THEN SetPrefix(cells, bl.metric_prefix.v)
              ELSE [ok |-> TRUE, cells |-> cells]
    IN [ok |-> sp.ok, cells |-> sp.cells,
        described |-> IF sp.ok /\ ~bl.no_initialize_metrics
                      THEN desc \cup DescribeMetrics(sp.cells, bl.enable_body_size)
                      ELSE desc]

\* The builder after a successful pairing.
PairedWith(bl, handle) ==
    [bl EXCEPT !.state = "Paired", !.metric_handle = Some(handle)]

\* with_default_metrics: from_layer_only, then Handle::default() installs
\* the global recorder with the duration buckets under the duration name
\* in use, and panics if a recorder is installed already.
WithDefaultMetrics(b) ==
    /\ builder[b].state = "LayerOnly"
    /\ LET f == FromLayerOnly(builder[b], prefixed, described) IN
        /\ prefixed' = f.cells
        /\ described' = f.described
        /\ IF f.ok /\ ~IsSome(recorder)
           THEN /\ recorder' = Some([buckets_for |-> DurationNameOf(f.cells)])
                /\ builder' = [builder EXCEPT ![b] = PairedWith(@, "default")]
           ELSE /\ builder' = [builder EXCEPT ![b] = Panicked(@)]
                /\ UNCHANGED recorder
    /\ UNCHANGED <<layer, calls>>
    /\ UNCHANGED <<requestVars, metricVars>>

\* with_metrics_from_fn: from_layer_only, then the handle of the closure.
WithMetricsFromFn(b) ==
    /\ builder[b].state = "LayerOnly"
    /\ LET f == FromLayerOnly(builder[b], prefixed, described) IN
        /\ prefixed' = f.cells
        /\ described' = f.described
        /\ builder' = [builder EXCEPT ![b] =
                IF f.ok THEN PairedWith(@, "from_fn") ELSE Panicked(@)]
    /\ UNCHANGED <<layer, recorder, calls>>
    /\ UNCHANGED <<requestVars, metricVars>>

\* build_pair: GenericMetricLayer::pair_from_builder.
BuildPair(b) ==
    /\ builder[b].state = "Paired"
    /\ layer' = NewLayer(builder[b].traffic, builder[b].enable_body_size)
    /\ builder' = [builder EXCEPT ![b].state = "built"]
    /\ UNCHANGED <<prefixed, described, recorder, calls>>
    /\ UNCHANGED <<requestVars, metricVars>>

\* ------------------------------------------------------- specifications
\* Handler results over a set of responses.
HandlerResults(responses) ==
    {[t |-> "Pending"]} \cup {[t |-> "Err", err |-> e] : e \in Errors}
        \cup {[t |-> "Ok", response |-> rsp] : rsp \in responses}

\* The hints the inner body reports after answering res: is_end_stream may
\* turn true when a data frame was taken out of the body.
NextHints(r, res) ==
    IF res.t = "Frame" /\ res.frame.kind = "data"
    THEN [end_stream : BOOLEAN, size_exact : {inner[r].size_exact}]
    ELSE {[end_stream |-> inner[r].end_stream, size_exact |-> inner[r].size_exact]}

\* Spec: one request, every classification, every sequence of body items.
SpecRequests == Requests
SpecResponses ==
    {[status |-> sc[1], class |-> sc[2], content_length |-> None,
      body |-> [end_stream |-> es, size_exact |-> None]] :
        sc \in {<<200, "ReadyOk">>, <<500, "ReadyErr">>, <<200, "RequiresEos">>},
        es \in BOOLEAN}
AgainResults ==
    {[t |-> "Err", err |-> "e1"],
     [t |-> "Ok", response |-> [status |-> 200, class |-> "ReadyOk",
                                content_length |-> None,
                                body |-> [end_stream |-> FALSE, size_exact |-> None]]]}

Next ==
    \/ \E rq \in SpecRequests : Call(1, rq)
    \/ \E res \in HandlerResults(SpecResponses) : PollFuture(1, res)
    \/ \E res \in AgainResults : PollFutureAgain(1, res)
    \/ \E res \in BodyItems : \E nxt \in NextHints(1, res) : PollBody(1, res, nxt)
    \/ ConsumerFinish(1)

Spec == Init /\ [][Next]_vars


\* SpecConc: NumReqs requests in flight at once, interleaved in every way,
\* each with a handler error, a Ready response or a streamed response whose
\* body yields data, an error or its end within ConcPolls polls.
ConcPolls == 2
ConcResponses ==
    {[status |-> 200, class |-> c, content_length |-> None,
      body |-> [end_stream |-> FALSE, size_exact |-> None]] :
        c \in {"ReadyOk", "RequiresEos"}}
ConcHandlerResults ==
    {[t |-> "Err", err |-> "e1"]}
        \cup {[t |-> "Ok", response |-> rsp] : rsp \in ConcResponses}
\* The consumer of a concurrent request reads its body up to the final
\* item (None, an error or trailers) and does not poll after it.
ConcReading(r) == \A i \in 1..Len(out[r]) : ~IsFinalItem(out[r][i])

ConcBodyItems == {PollFrameOk(FrameData(<<1, 2>>)), PollErr("e1"), PollNone}

NextConc ==
    \E r \in Reqs :
        \/ \E rq \in Requests : Call(r, rq)
        \/ \E res \in ConcHandlerResults : PollFuture(r, res)
        \/ \E res \in ConcBodyItems :
                /\ Len(out[r]) < ConcPolls
                /\ ConcReading(r)
                /\ PollBody(r, res, [end_stream |-> inner[r].end_stream,
                                     size_exact |-> inner[r].size_exact])

SpecConc == Init /\ [][NextConc]_vars

\* SpecSize: one request whose response may carry a Content-Length header
\* and whose body may report an exact size hint, re-read on every poll.
SizeResponses ==
    {[status |-> 200, class |-> c, content_length |-> cl,
      body |-> [end_stream |-> FALSE, size_exact |-> se]] :
        c \in {"ReadyOk", "RequiresEos"},
        cl \in {None} \cup {Some(h) : h \in HeaderValues},
        se \in SizeHints}
SizeBodyItems ==
    {PollNone, PollErr("e1")} \cup {PollFrameOk(FrameData(c)) : c \in Chunks}
SizeNextHints(r, res) ==
    IF res.t = "Frame"
    THEN [end_stream : {FALSE}, size_exact : SizeHints]
    ELSE {[end_stream |-> inner[r].end_stream, size_exact |-> inner[r].size_exact]}

NextSize ==
    \/ \E rq \in Requests : Call(1, rq)
    \/ \E res \in HandlerResults(SizeResponses) : PollFuture(1, res)
    \/ \E res \in SizeBodyItems : \E nxt \in SizeNextHints(1, res) :
            PollBody(1, res, nxt)

SpecSize == Init /\ [][NextSize]_vars

\* SpecLabel: one builder is given ignore patterns, group patterns and an
\* endpoint label type in any order and built; the requests of a routed
\* application are then answered one after the other.
MaxConfig == 2
GroupPatternLists == {{"/foo/:bar"}, {"/foo/:bar/:baz"}, {"/metrics"}}
EndpointLabels == {"Exact", "MatchedPath", "MatchedPathWithFallbackFn"}
MatchedPaths(path) ==
    {None} \cup {Some(t) : t \in {u \in Templates : Matches(u, path)}}
RouteRequests ==
    UNION {[path : {pa}, method : Methods, matched : MatchedPaths(pa)] :
                pa \in RoutePaths}
LabelResponse ==
    [status |-> 200, class |-> "ReadyOk", content_length |-> None,
     body |-> [end_stream |-> TRUE, size_exact |-> None]]

\* The requests of SpecLabel: a first one and a second one after it, which
\* is what a comparison of the labels of two requests needs.
LabelReqs == {r \in Reqs : r <= 2}

\* The builder calls made on builder b so far.
ConfigCalls(b) == Cardinality({i \in 1..Len(calls) : calls[i][1] = b})

NextLabel ==
    \/ /\ ConfigCalls(1) < MaxConfig
       /\ \/ \E pat \in Patterns : WithIgnorePattern(1, pat)
          \/ \E g \in GroupLabels : \E pats \in GroupPatternLists :
                \E ord \in Orders(GroupLabels) \cup Orders({g}) :
                    WithGroupPatternsAs(1, g, pats, ord)
    \/ \E e \in EndpointLabels : WithEndpointLabelType(1, e)
    \/ Build(1)
    \/ \E r \in LabelReqs :
          \/ /\ r > 1 => IsSome(result[r - 1])
             /\ \E rq \in RouteRequests : Call(r, rq)
          \/ PollFuture(r, [t |-> "Ok", response |-> LabelResponse])

SpecLabel == InitBuild /\ [][NextLabel]_vars

\* SpecPrefix: NumBuilders builders, one after the other, are given a prefix
\* and options and are built or paired; one request is then answered by the
\* layer mounted last and its body read.
PrefixRequest == [path |-> "/a", method |-> "GET", matched |-> None]
PrefixResponse ==
    [status |-> 200, class |-> "ReadyOk", content_length |-> None,
     body |-> [end_stream |-> FALSE, size_exact |-> None]]

NextPrefix ==
    \/ \E b \in Builders :
        /\ b > 1 => builder[b - 1].state \in {"built", "panicked"}
        /\ \/ \E prefix \in Prefixes : WithPrefix(b, prefix)
           \/ \E enable \in BOOLEAN : EnableResponseBodySize(b, enable)
           \/ NoInitializeMetrics(b)
           \/ Build(b)
           \/ WithDefaultMetrics(b)
           \/ WithMetricsFromFn(b)
           \/ BuildPair(b)
    \/ /\ \A b \in Builders : builder[b].state \in {"built", "panicked"}
       /\ Call(1, PrefixRequest)
    \/ PollFuture(1, [t |-> "Ok", response |-> PrefixResponse])
    \/ /\ out[1] = <<>>
       /\ PollBody(1, PollFrameOk(FrameData(<<1, 2>>)),
                   [end_stream |-> TRUE, size_exact |-> None])

SpecPrefix == InitBuild /\ [][NextPrefix]_vars

\* SpecTrailers: one request whose body may fail while it produces a data
\* frame or while it produces its trailers; the error value tells which.
StageErrors == [stage : {"data", "trailers"}, error : {"e1"}]
TrailersBodyItems ==
    {PollNone, PollFrameOk(FrameData(<<1, 2>>)),
     PollFrameOk(FrameTrailers("grpc-status:0"))}
        \cup {PollErr(e) : e \in StageErrors}

NextTrailers ==
    \/ \E rq \in Requests : Call(1, rq)
    \/ \E res \in ConcHandlerResults : PollFuture(1, res)
    \/ \E res \in TrailersBodyItems :
            PollBody(1, res, [end_stream |-> inner[1].end_stream,
                              size_exact |-> inner[1].size_exact])

SpecTrailers == Init /\ [][NextTrailers]_vars

\* SpecState: NumReqs requests in flight at once, request r with a path of
\* its own; a response may carry a Content-Length header, and its body
\* yields chunks, an error or its end within ConcPolls polls.
StatePath(r) ==
    CASE r = 1 -> "/a"
      [] r = 2 -> "/foo/1"
      [] OTHER -> "/foo/1/2"
StateRequest(r) == [path |-> StatePath(r), method |-> "GET", matched |-> None]
StateResponses ==
    {[status |-> 200, class |-> "RequiresEos", content_length |-> cl,
      body |-> [end_stream |-> FALSE, size_exact |-> None]] :
        cl \in {None, Some("7")}}
StateHandlerResults ==
    {[t |-> "Err", err |-> "e1"]}
        \cup {[t |-> "Ok", response |-> rsp] : rsp \in StateResponses}

NextState ==
    \E r \in Reqs :
        \/ Call(r, StateRequest(r))
        \/ \E res \in StateHandlerResults : PollFuture(r, res)
        \/ \E res \in ConcBodyItems :
                /\ Len(out[r]) < ConcPolls
                /\ ConcReading(r)
                /\ PollBody(r, res, [end_stream |-> inner[r].end_stream,
                                     size_exact |-> inner[r].size_exact])

SpecState == Init /\ [][NextState]_vars

\* SpecCancel: the one request of Spec, whose future or body the caller may
\* drop at any point.
NextCancel ==
    \/ Next
    \/ DropFuture(1)
    \/ DropBody(1)

SpecCancel == Init /\ [][NextCancel]_vars

\* ------------------------------------------------- reading the hook log
HookIdx(r, h) == {i \in 1..Len(hooks[r]) : hooks[r][i].h = h}
Count(r, h) == Cardinality(HookIdx(r, h))
FailureIdxAt(r, at) == {i \in HookIdx(r, "on_failure") : hooks[r][i].at = at}
AllBefore(r, h1, h2) ==
    \A i \in HookIdx(r, h1) : \A j \in HookIdx(r, h2) : i < j

HandlerOk(r) == IsSome(handler[r]) /\ handler[r].v.t = "Ok"
HandlerErr(r) == IsSome(handler[r]) /\ handler[r].v.t = "Err"
Deferred(r) == HandlerOk(r) /\ handler[r].v.response.class = "RequiresEos"
ClassifiedReady(r) == HandlerOk(r) /\ handler[r].v.response.class # "RequiresEos"

IsData(item) == item.t = "Frame" /\ item.frame.kind = "data"
IsTrailers(item) == item.t = "Frame" /\ item.frame.kind = "trailers"
OnlyChunksBefore(r, i) ==
    \A j \in 1..(i - 1) :
        inner[r].produced[j].t = "Pending" \/ IsData(inner[r].produced[j])

\* The inner body yielded an error after data frames only.
ErrMidStream(r) ==
    \E i \in 1..Len(inner[r].produced) :
        inner[r].produced[i].t = "Err" /\ OnlyChunksBefore(r, i)

\* The inner body reached its natural end (trailers or None) after data
\* frames only.
NaturalEnd(r) ==
    \E i \in 1..Len(inner[r].produced) :
        /\ IsTrailers(inner[r].produced[i]) \/ inner[r].produced[i] = PollNone
        /\ OnlyChunksBefore(r, i)


\* ------------------------------------------------------------------ C1
\* C1 as stated: for EVERY request whose inner body yields an error after
\* data frames only, on_failure(Body) fires exactly once, after the one
\* on_response, and on_eos never fires -- whether the response was
\* classified Ready or RequiresEos.
BodyFailureOnce(r) ==
    /\ Cardinality(FailureIdxAt(r, "Body")) = 1
    /\ Count(r, "on_failure") = 1
    /\ Count(r, "on_response") = 1
    /\ AllBefore(r, "on_response", "on_failure")
    /\ Count(r, "on_eos") = 0

C1_AllRequests == \A r \in Reqs : ErrMidStream(r) => BodyFailureOnce(r)

\* C1 amended: the same, for the requests whose classification was deferred
\* (RequiresEos).
C1_Deferred == \A r \in Reqs : Deferred(r) /\ ErrMidStream(r) => BodyFailureOnce(r)

\* A deferred request whose body produced a chunk, then an error, and was
\* polled once more.
C1_Witness ==
    \E r \in Reqs :
        /\ Deferred(r)
        /\ Len(inner[r].produced) = 3
        /\ IsData(inner[r].produced[1])
        /\ inner[r].produced[2].t = "Err"

\* ------------------------------------------------------------------ C2
\* C2: when the handler future resolves to Err(e), the hooks of the request
\* are exactly prepare and then on_failure(Response, classify_error(e), data)
\* with the data prepare returned: no on_response, no on_eos, no chunk
\* observation, and no second on_failure, also after further polls.
C2_HandlerError ==
    \A r \in Reqs :
        HandlerErr(r) =>
            /\ Len(hooks[r]) = 2
            /\ hooks[r][1].h = "prepare"
            /\ hooks[r][2] = EvFailure("Response",
                                       ClassifyError(handler[r].v.err),
                                       hooks[r][1].data)
            /\ ~body[r].exists

\* The handler failed and the future was polled again afterwards.
C2_Witness ==
    \E r \in Reqs : HandlerErr(r) /\ fut[r].state = "panicked"

\* ------------------------------------------------------------------ C3
\* C3: when the response is classified Ready, on_response fires exactly once
\* and neither on_eos nor on_failure fires, whatever the body yields; the
\* terminal-hook slot of the body is empty.
C3_ReadyNoTerminalHook ==
    \A r \in Reqs :
        ClassifiedReady(r) =>
            /\ Count(r, "on_response") = 1
            /\ Count(r, "on_eos") = 0
            /\ Count(r, "on_failure") = 0
            /\ body[r].exists /\ body[r].parts = None

\* A Ready response whose body yielded a trailers frame and an error.
C3_Witness ==
    \E r \in Reqs :
        /\ ClassifiedReady(r)
        /\ \E i, j \in 1..Len(out[r]) : IsTrailers(out[r][i]) /\ out[r][j].t = "Err"

\* ------------------------------------------------------------------ C4
\* C4: when the classification was deferred and the body reached its natural
\* end (trailers or None) without an error before it, on_eos has fired
\* exactly once, after the one on_response, and on_failure never fires; a
\* None after the trailers frame does not fire on_eos again.
C4_EosOnce ==
    \A r \in Reqs :
        Deferred(r) /\ NaturalEnd(r) =>
            /\ Count(r, "on_eos") = 1
            /\ Count(r, "on_response") = 1
            /\ AllBefore(r, "on_response", "on_eos")
            /\ Count(r, "on_failure") = 0

\* A deferred request whose body yielded a chunk, trailers, and then None.
C4_Witness ==
    \E r \in Reqs :
        /\ Deferred(r)
        /\ Len(inner[r].produced) = 3
        /\ IsData(inner[r].produced[1])
        /\ IsTrailers(inner[r].produced[2])
        /\ inner[r].produced[3] = PollNone


\* ------------------------------------------------------------------ C5
\* A request has terminated: the handler failed, the response was classified
\* Ready, or the deferred body was read to a final item (trailers, None or
\* an error).
Terminated(r) ==
    \/ HandlerErr(r)
    \/ ClassifiedReady(r)
    \/ Deferred(r) /\ \E i \in 1..Len(out[r]) : IsFinalItem(out[r][i])

\* C5: once every one of the NumReqs concurrent requests has terminated, the
\* pending gauge has been decremented as often as it was incremented, and
\* is back at its initial value under every label pair.
C5_GaugeSymmetry ==
    (\A r \in Reqs : Terminated(r)) =>
        /\ gaugeIncs = gaugeDecs
        /\ \A l \in Label2 : gauge[l] = 0

\* ------------------------------------------------------------------ C6
TerminalCount(r) == Count(r, "on_eos") + Count(r, "on_failure")

\* C6: for every wrapped body and every sequence of polls, on_eos and
\* on_failure together fire at most once, and once one of them has fired
\* the (classifier, callbacks) slot is empty.
C6_AtMostOneTerminal ==
    \A r \in Reqs :
        /\ TerminalCount(r) <= 1
        /\ body[r].exists /\ TerminalCount(r) = 1 => body[r].parts = None

\* A deferred body polled to a trailers frame, then an error, then None.
C6_Witness ==
    \E r \in Reqs :
        /\ Deferred(r)
        /\ Len(out[r]) = 3
        /\ IsTrailers(out[r][1])
        /\ out[r][2].t = "Err"
        /\ out[r][3] = PollNone

\* ------------------------------------------------------------------ C7
\* C7: a deferred request whose consumer finished reading -- it stopped
\* after the final item (trailers, None, error) or after is_end_stream()
\* answered true -- has had exactly one of on_eos / on_failure.
C7_TerminalHookWhenFinished ==
    \A r \in Reqs :
        Deferred(r) /\ cons[r] = "finished" => TerminalCount(r) = 1

\* ------------------------------------------------------------------ C8
Rank(ev) ==
    CASE ev.h = "prepare" -> 0
      [] ev.h = "on_response" -> 1
      [] ev.h = "chunk" -> 2
      [] OTHER -> 3

\* The chunks observed, in observation order, and the chunks of the data
\* frames the inner body produced, in production order.
RECURSIVE ChunksObserved(_)
ChunksObserved(evs) ==
    IF evs = <<>> THEN <<>>
    ELSE IF Head(evs).h = "chunk"
         THEN <<Head(evs).chunk>> \o ChunksObserved(Tail(evs))
         ELSE ChunksObserved(Tail(evs))

RECURSIVE ChunksProduced(_)
ChunksProduced(items) ==
    IF items = <<>> THEN <<>>
    ELSE IF IsData(Head(items))
         THEN <<Head(items).frame.chunk>> \o ChunksProduced(Tail(items))
         ELSE ChunksProduced(Tail(items))

\* prepare first, one on_response at most and nothing but prepare before
\* it, chunks observed in production order, one terminal hook at most.
OrderedUpToTerminal(r) ==
    /\ Count(r, "prepare") = 1 /\ hooks[r][1].h = "prepare"
    /\ Count(r, "on_response") <= 1
    /\ \A i \in HookIdx(r, "on_response") : i = 2
    /\ HookIdx(r, "chunk") # {} => Count(r, "on_response") = 1
    /\ ChunksObserved(hooks[r]) = ChunksProduced(inner[r].produced)
    /\ TerminalCount(r) <= 1

\* C8 as stated: the hooks of a request come in the order prepare,
\* on_response, chunk observations, terminal hook: nothing is observed
\* after the terminal hook.
C8_TotalOrder ==
    \A r \in Reqs :
        hooks[r] # <<>> =>
            /\ OrderedUpToTerminal(r)
            /\ \A i, j \in 1..Len(hooks[r]) :
                    i < j => Rank(hooks[r][i]) <= Rank(hooks[r][j])

\* The inner body produced a data frame after a final item (a trailers
\* frame, None or an error).
DataAfterEnd(r) ==
    \E a, b \in 1..Len(inner[r].produced) :
        /\ a < b
        /\ IsFinalItem(inner[r].produced[a])
        /\ IsData(inner[r].produced[b])

\* C8 amended: prepare, then on_response, then chunk observations in
\* production order and at most one terminal hook; on_response is never
\* after the terminal hook, and a chunk is observed after the terminal hook
\* only when the inner body produced a data frame after a trailers frame,
\* None or an error.
C8_OrderUnlessDataAfterEnd ==
    \A r \in Reqs :
        hooks[r] # <<>> =>
            /\ OrderedUpToTerminal(r)
            /\ \A i, j \in 1..Len(hooks[r]) :
                    i < j /\ Rank(hooks[r][i]) > Rank(hooks[r][j]) =>
                        /\ hooks[r][j].h = "chunk"
                        /\ DataAfterEnd(r)

\* A deferred request that observed two chunks and then its terminal hook.
C8_Witness ==
    \E r \in Reqs :
        /\ Len(hooks[r]) = 5
        /\ hooks[r][3].h = "chunk"
        /\ hooks[r][4].h = "chunk"
        /\ hooks[r][5].h \in {"on_eos", "on_failure"}

\* ------------------------------------------------------------------ C9
\* C9: an error of the handler future is the error the combinator resolves
\* to, and every error item of the inner body is returned by the wrapper
\* at the same position with the same value; on_failure, when it fires,
\* fires in addition to that.
C9_ErrorsUnchanged ==
    \A r \in Reqs :
        /\ HandlerErr(r) =>
                /\ result[r] = Some([t |-> "Err", err |-> handler[r].v.err])
                /\ Count(r, "on_failure") = 1
        /\ \A i \in 1..Len(inner[r].produced) :
                inner[r].produced[i].t = "Err" =>
                    /\ i <= Len(out[r])
                    /\ out[r][i] = PollErr(inner[r].produced[i].err)
        /\ \A i \in HookIdx(r, "on_failure") :
                hooks[r][i].at = "Body" =>
                    \E k \in 1..Len(out[r]) :
                        /\ out[r][k].t = "Err"
                        /\ hooks[r][i].class = ClassifyError(out[r][k].err)

\* A deferred body returned the error e2 after a chunk, and on_failure ran.
C9_Witness ==
    \E r \in Reqs :
        /\ Deferred(r)
        /\ Len(out[r]) >= 2
        /\ IsData(out[r][1])
        /\ out[r][2] = PollErr("e2")
        /\ Count(r, "on_failure") = 1

\* ----------------------------------------------------------------- C10
\* C10: the items the wrapper returns are the items the inner body
\* produced, in the same order (Pending, data, trailers, errors, None), and
\* is_end_stream and size_hint answer what the inner body answers.
C10_BodyRefinesInner ==
    \A r \in Reqs :
        /\ out[r] = inner[r].produced
        /\ IsEndStream(r) = InnerIsEndStream(r)
        /\ SizeHint(r) = InnerSizeHint(r)

\* A body that returned Pending, a non-empty chunk and a trailers frame.
C10_Witness ==
    \E r \in Reqs : \E i, j, k \in 1..Len(out[r]) :
        /\ out[r][i] = PollPending
        /\ out[r][j] = PollFrameOk(FrameData(<<1, 2>>))
        /\ IsTrailers(out[r][k])
        /\ inner[r].end_stream

\* ----------------------------------------------------------------- C11
\* C11: the chunk observer has been called once for each data frame the
\* inner body produced, empty chunks included, with the chunks in production
\* order, whether the response was classified Ready or RequiresEos; there
\* is no call for a trailers frame, an error, None or Pending.
C11_ChunkPerDataFrame ==
    \A r \in Reqs :
        /\ ChunksObserved(hooks[r]) = ChunksProduced(inner[r].produced)
        /\ Count(r, "chunk") =
                Cardinality({i \in 1..Len(inner[r].produced) :
                                IsData(inner[r].produced[i])})

\* A Ready response whose body produced Pending, an empty chunk and a
\* non-empty chunk.
C11_Witness ==
    \E r \in Reqs :
        /\ ClassifiedReady(r)
        /\ inner[r].produced =
                <<PollPending, PollFrameOk(FrameData(<<>>)),
                  PollFrameOk(FrameData(<<1, 2>>))>>
        /\ Count(r, "chunk") = 2

\* ----------------------------------------------------------------- C12
\* The exact body size was known at a chunk observation of request r.
SizeKnownAtChunk(r) ==
    \E i \in HookIdx(r, "chunk") : IsSome(hooks[r][i].size)

\* C12: when the exact body size is known (exact size hint, or else a
\* parseable Content-Length), OnExactBodySize::call has run exactly once
\* for the request, before the first chunk observation, and the exact size
\* is handed over at most once.
C12_ExactSizeHookOnce ==
    \A r \in Reqs :
        SizeKnownAtChunk(r) =>
            /\ Count(r, "on_exact_body_size") = 1
            /\ AllBefore(r, "on_exact_body_size", "chunk")
            /\ Cardinality({i \in HookIdx(r, "chunk") :
                                IsSome(hooks[r][i].size)}) <= 1

\* ----------------------------------------------------------------- C13
\* The exact path of request r matches an ignore pattern.
IgnoredReq(r) ==
    /\ hooks[r] # <<>>
    /\ RouterAt(layer.traffic.ignore_patterns, hooks[r][1].request.path)

\* Request r took a step: call, a poll of its future or of its body.
Stepped(r) == fut'[r] # fut[r] \/ out'[r] # out[r] \/ hooks'[r] # hooks[r]

\* C13: no step of a request whose exact path matches an ignore pattern --
\* its prepare, its on_response, the observation of any of its chunks --
\* changes any metric: gauge, counter, duration and body-size histograms
\* stay as they are, and its prepare returned None.
C13_IgnoredChangesNothing ==
    [][\A r \in Reqs :
          IgnoredReq(r)' /\ Stepped(r) =>
              /\ UNCHANGED metricVars
              /\ hooks'[r][1].data = None]_vars

\* An ignored request that was answered and had a chunk observed, next to
\* a reported request.
C13_Witness ==
    \E r \in Reqs :
        /\ IgnoredReq(r)
        /\ Count(r, "on_response") = 1
        /\ Count(r, "chunk") >= 1
        /\ gaugeIncs = 1

\* ----------------------------------------------------------------- C14
\* Request r was prepared and is reported (not ignored).
Reported(r) == hooks[r] # <<>> /\ IsSome(hooks[r][1].data)

\* The request of r, its label before grouping, the groups with a pattern
\* matching that label, and the endpoint its samples carry.
RequestOf(r) == hooks[r][1].request
ResolvedLabel(r) == ResolveEndpoint(layer.traffic, RequestOf(r)).label
GroupsMatching(r) ==
    {g \in GroupLabels :
        RouterAt(layer.traffic.group_patterns[g], ResolvedLabel(r))}
EndpointOf(r) == hooks[r][1].data.v.endpoint

\* Every hook of r holds the endpoint set by prepare, every sample in the
\* sink has the endpoint of a reported request, and an answered request has
\* its counter and gauge samples under its endpoint.
SamplesUnderEndpoint ==
    /\ \A r \in Reqs : Reported(r) =>
            /\ \A i \in 1..Len(hooks[r]) :
                    hooks[r][i].data.v.endpoint = EndpointOf(r)
            /\ \E sm \in samples : sm.labels.endpoint = EndpointOf(r)
            /\ Count(r, "on_response") = 1 =>
                    counter[[method |-> hooks[r][1].data.v.method,
                             status |-> hooks[r][2].status,
                             endpoint |-> EndpointOf(r)]] >= 1
    /\ \A sm \in samples :
            \E r \in Reqs : Reported(r) /\ sm.labels.endpoint = EndpointOf(r)

\* C14 as stated: a request whose label matches a pattern registered under
\* group G has every sample under endpoint G, for every such G; a label
\* matching no group pattern is reported unchanged.
C14_EveryMatchingGroup ==
    /\ SamplesUnderEndpoint
    /\ \A r \in Reqs : Reported(r) =>
            /\ \A g \in GroupsMatching(r) : EndpointOf(r) = g
            /\ GroupsMatching(r) = {} => EndpointOf(r) = ResolvedLabel(r)

\* C14 amended: the samples of a request are under the label of a group
\* with a pattern matching its label -- under G when G is the only such
\* group, so that two requests with distinct labels matching patterns of G
\* alone share the label G --, and under the label itself when no group
\* pattern matches.
C14_SomeMatchingGroup ==
    /\ SamplesUnderEndpoint
    /\ \A r \in Reqs : Reported(r) =>
            /\ GroupsMatching(r) # {} => EndpointOf(r) \in GroupsMatching(r)
            /\ GroupsMatching(r) = {} => EndpointOf(r) = ResolvedLabel(r)

\* Two answered requests with distinct labels, both matching patterns that
\* two with_group_patterns_as calls registered under /foo, and one
\* endpoint in the sink.
C14_Witness ==
    /\ layer.traffic.group_patterns["/foo"] = {"/foo/:bar", "/foo/:bar/:baz"}
    /\ \E r1, r2 \in Reqs :
        /\ Reported(r1) /\ Reported(r2)
        /\ IsSome(result[r1]) /\ IsSome(result[r2])
        /\ ResolvedLabel(r1) # ResolvedLabel(r2)
        /\ EndpointOf(r1) = "/foo" /\ EndpointOf(r2) = "/foo"
        /\ \A sm \in samples : sm.labels.endpoint = "/foo"

\* ----------------------------------------------------------------- C15
\* The exact path of request r matches a pattern of some group.
PathInGroup(r) ==
    \E g \in GroupLabels :
        RouterAt(layer.traffic.group_patterns[g], RequestOf(r).path)

\* C15: a request whose path matches an ignore pattern and a pattern of a
\* group is ignored: prepare returns None and no step of the request
\* changes a metric, under the group label or any other, in whichever
\* order the ignore pattern and the group patterns were configured.
C15_IgnoreBeforeGroup ==
    [][\A r \in Reqs :
          IgnoredReq(r)' /\ PathInGroup(r)' /\ Stepped(r) =>
              /\ hooks'[r][1].data = None
              /\ UNCHANGED metricVars]_vars

\* The group pattern was configured first, the ignore pattern after it,
\* and a request matching both was answered without any sample.
C15_Witness ==
    /\ Len(calls) = 2
    /\ calls[1][2] = "with_group_patterns_as"
    /\ calls[2][2] = "with_ignore_pattern"
    /\ \E r \in Reqs :
        /\ IgnoredReq(r) /\ PathInGroup(r)
        /\ Count(r, "on_response") = 1
        /\ samples = {}

\* ----------------------------------------------------------------- C16
\* The four metric names under prefix p.
PrefixedNames(p) ==
    {Format(p, "_http_requests_total"), Format(p, "_http_requests_pending"),
     Format(p, "_http_requests_duration_seconds"),
     Format(p, "_http_response_body_size")}

\* C16: once a builder on which with_prefix(p) was called has been
\* finalized into a layer (build, or a pairing and build_pair), the utils
\* name functions return the four p_ names and every sample of a request
\* handled from then on is under one of them.
C16_PrefixAfterFinalize ==
    \A b \in Builders :
        builder[b].state = "built" /\ IsSome(builder[b].metric_prefix) =>
            LET p == builder[b].metric_prefix.v IN
            /\ RequestsTotalName = Format(p, "_http_requests_total")
            /\ RequestsPendingName = Format(p, "_http_requests_pending")
            /\ RequestsDurationName =
                    Format(p, "_http_requests_duration_seconds")
            /\ ResponseBodySizeName = Format(p, "_http_response_body_size")
            /\ \A sm \in samples : sm.name \in PrefixedNames(p)

\* ----------------------------------------------------------------- C17
CellNames == {"total", "duration", "pending", "body_size"}

\* The four cells are empty, or hold the four names of one prefix.
CellsOfOnePrefix ==
    \/ prefixed = NoPrefix
    \/ \E p \in Prefixes :
          prefixed =
            [total |-> Some(Format(p, "_http_requests_total")),
             duration |-> Some(Format(p, "_http_requests_duration_seconds")),
             pending |-> Some(Format(p, "_http_requests_pending")),
             body_size |-> Some(Format(p, "_http_response_body_size"))]

\* Builder b, which has a prefix, is paired in this step.
PairsWithPrefix(b) ==
    /\ builder[b].state = "LayerOnly"
    /\ IsSome(builder[b].metric_prefix)
    /\ builder'[b].state \in {"Paired", "panicked"}

\* C17: a prefixed name, once set, never changes; the four cells always
\* hold the names of one prefix; and pairing a builder that has a prefix
\* (the same or another one) after the prefix was set panics and leaves
\* the four names as they were.
C17_PrefixWriteOnce ==
    [][/\ \A c \in CellNames :
            IsSome(prefixed[c]) => prefixed'[c] = prefixed[c]
       /\ CellsOfOnePrefix'
       /\ \A b \in Builders :
            PairsWithPrefix(b) /\ prefixed # NoPrefix =>
                /\ builder'[b].state = "panicked"
                /\ prefixed' = prefixed]_vars

\* The first builder set the prefix pref, a later builder with the prefix
\* other panicked, and a request was then reported under the pref_ names.
C17_Witness ==
    /\ builder[1].metric_prefix = Some("pref")
    /\ builder[1].state = "built"
    /\ builder[2].metric_prefix = Some("other")
    /\ builder[2].state = "panicked"
    /\ RequestsTotalName = "pref_http_requests_total"
    /\ samples # {}
    /\ \A sm \in samples : sm.name \in PrefixedNames("pref")

\* ----------------------------------------------------------------- C18
\* The {method, status, endpoint} labels of the answered request r.
AnsweredLabels(r) ==
    [method |-> AsLabel(RequestOf(r).method),
     status |-> handler[r].v.response.status,
     endpoint |-> EndpointOf(r)]

\* C18: a reported request that was answered with a response of any status
\* has had one prepare and one on_response; the gauge was incremented once
\* and then decremented once under its {method, endpoint} and is back at
\* zero, the counter was incremented once and the duration observed once,
\* both under the method, the status of the response and the endpoint, and
\* under no other labels.
C18_OneSampleEach ==
    /\ \A l \in Label2 : gauge[l] >= 0
    /\ Reported(1) /\ HandlerOk(1) =>
        /\ Count(1, "prepare") = 1 /\ Count(1, "on_response") = 1
        /\ AllBefore(1, "prepare", "on_response")
        /\ gaugeIncs = 1 /\ gaugeDecs = 1
        /\ \A l \in Label2 : gauge[l] = 0
        /\ \A l \in Label3 :
                /\ counter[l] = IF l = AnsweredLabels(1) THEN 1 ELSE 0
                /\ duration[l] = IF l = AnsweredLabels(1) THEN 1 ELSE 0
        /\ [name |-> RequestsPendingName,
            labels |-> [method |-> AnsweredLabels(1).method,
                        endpoint |-> AnsweredLabels(1).endpoint]] \in samples

\* GET /a answered with status 500 and its body read to the end.
C18_Witness ==
    /\ Reported(1) /\ HandlerOk(1)
    /\ handler[1].v.response.status = 500
    /\ counter[[method |-> "GET", status |-> 500, endpoint |-> "/a"]] = 1
    /\ cons[1] = "finished"

\* ----------------------------------------------------------------- C19
\* The error values request r has yielded: that of its handler future and
\* those of its inner body.
ErrorsYielded(r) ==
    (IF HandlerErr(r) THEN {handler[r].v.err} ELSE {})
        \cup {inner[r].produced[i].err :
                i \in {j \in 1..Len(inner[r].produced) :
                            inner[r].produced[j].t = "Err"}}

\* C19: a response classified as a failure is reported by on_response with
\* Ready(Err(class)) and an end of stream classified as a failure by
\* on_eos with Err(class), never by on_failure: every on_failure carries
\* the class of an error value that the handler future or the body
\* yielded, and there is none when no error value was yielded.
C19_FailureOnlyOnErrorValue ==
    \A r \in Reqs :
        /\ HandlerOk(r) /\ handler[r].v.response.class = "ReadyErr" =>
                hooks[r][2] =
                    EvResponse(handler[r].v.response.status,
                               [t |-> "Ready",
                                outcome |-> Err(<<"status",
                                                 handler[r].v.response.status>>)],
                               hooks[r][1].data)
        /\ \A i \in HookIdx(r, "on_eos") :
                /\ hooks[r][i].classification = ClassifyEos(hooks[r][i].trailers)
                /\ \E k \in 1..Len(inner[r].produced) :
                        \/ inner[r].produced[k] = PollNone
                                /\ hooks[r][i].trailers = None
                        \/ IsTrailers(inner[r].produced[k])
                                /\ hooks[r][i].trailers =
                                        Some(inner[r].produced[k].frame.trailers)
        /\ \A i \in HookIdx(r, "on_failure") :
                \E e \in ErrorsYielded(r) : hooks[r][i].class = ClassifyError(e)
        /\ ErrorsYielded(r) = {} => Count(r, "on_failure") = 0

\* A deferred body ended with trailers classified as a failure: on_eos got
\* Err(class), and no on_failure ran.
C19_Witness ==
    \E r \in Reqs : \E i \in HookIdx(r, "on_eos") :
        /\ hooks[r][i].trailers = Some("grpc-status:13")
        /\ ~hooks[r][i].classification.ok
        /\ Count(r, "on_failure") = 0

\* ----------------------------------------------------------------- C20
\* C20: every on_failure carries the stage of the error it reports:
\* FailedAt::Response for the error of the handler future, FailedAt::Body
\* for an error of the body while it produces a data frame, and
\* FailedAt::Trailers for an error of the body while it produces trailers.
C20_FailedAtStage ==
    \A r \in Reqs : \A i \in HookIdx(r, "on_failure") :
        \/ /\ hooks[r][i].at = "Response"
           /\ HandlerErr(r)
        \/ /\ hooks[r][i].at # "Response"
           /\ \E k \in 1..Len(inner[r].produced) :
                /\ inner[r].produced[k].t = "Err"
                /\ hooks[r][i].class = ClassifyError(inner[r].produced[k].err)
                /\ hooks[r][i].at =
                        IF inner[r].produced[k].err.stage = "trailers"
                        THEN "Trailers" ELSE "Body"

\* ----------------------------------------------------------------- C21
\* The label names of the samples sent under a metric name.
LabelNamesOf(name) == {DOMAIN sm.labels : sm \in {x \in samples : x.name = name}}

\* C21 as stated: the pending gauge and the requests-total counter are
\* labelled with exactly {method, endpoint}, the duration histogram and the
\* body-size histogram with exactly {method, status, endpoint}.
C21_LabelSetsAsStated ==
    /\ LabelNamesOf(RequestsPendingName) \subseteq {{"method", "endpoint"}}
    /\ LabelNamesOf(RequestsTotalName) \subseteq {{"method", "endpoint"}}
    /\ LabelNamesOf(RequestsDurationName)
            \subseteq {{"method", "status", "endpoint"}}
    /\ LabelNamesOf(ResponseBodySizeName)
            \subseteq {{"method", "status", "endpoint"}}

\* C21 amended: the pending gauge and the body-size histogram are labelled
\* with exactly {method, endpoint}, the requests-total counter and the
\* duration histogram with exactly {method, status, endpoint}; no sample is
\* sent under any other name.
C21_LabelSets ==
    /\ LabelNamesOf(RequestsPendingName) \subseteq {{"method", "endpoint"}}
    /\ LabelNamesOf(ResponseBodySizeName) \subseteq {{"method", "endpoint"}}
    /\ LabelNamesOf(RequestsTotalName)
            \subseteq {{"method", "status", "endpoint"}}
    /\ LabelNamesOf(RequestsDurationName)
            \subseteq {{"method", "status", "endpoint"}}
    /\ \A sm \in samples :
            sm.name \in {RequestsPendingName, ResponseBodySizeName,
                         RequestsTotalName, RequestsDurationName}

\* A reported request was answered and a chunk of its body observed: a
\* sample of each of the four metrics is in the sink.
C21_Witness ==
    /\ Reported(1) /\ Count(1, "on_response") = 1 /\ Count(1, "chunk") >= 1
    /\ \A n \in {RequestsPendingName, ResponseBodySizeName,
                  RequestsTotalName, RequestsDurationName} :
            LabelNamesOf(n) # {}

\* ----------------------------------------------------------------- C22
\* The label the claim gives request r before grouping: the exact path
\* under Exact, the matched route template when one is attached and else
\* the exact path under MatchedPath, the template when one is attached and
\* else f(exact path) under MatchedPathWithFallbackFn.
StatedLabel(r) ==
    LET rq == RequestOf(r)
        kind == layer.traffic.endpoint_label
    IN IF kind = "Exact" THEN rq.path
       ELSE IF IsSome(rq.matched) THEN rq.matched.v
       ELSE IF kind = "MatchedPath" THEN rq.path
       ELSE FallbackFn(rq.path)

\* C22: the endpoint of a reported request is the group rewrite of the
\* label its EndpointLabel gives it, and the fallback function was called
\* once, on the exact path, when the type is MatchedPathWithFallbackFn and
\* no matched path is attached, and not at all otherwise.
C22_EndpointResolution ==
    \A r \in Reqs : Reported(r) =>
        /\ EndpointOf(r) = ApplyGroupPattern(layer.traffic, StatedLabel(r))
        /\ hooks[r][1].fallback_args =
                IF /\ layer.traffic.endpoint_label = "MatchedPathWithFallbackFn"
                   /\ ~IsSome(RequestOf(r).matched)
                THEN <<RequestOf(r).path>> ELSE <<>>
        /\ IsSome(RequestOf(r).matched) => hooks[r][1].fallback_args = <<>>

\* Under MatchedPathWithFallbackFn one request with a matched path is
\* reported under its template, and one without under the group that a
\* pattern matching f(exact path) belongs to.
C22_Witness ==
    /\ layer.traffic.endpoint_label = "MatchedPathWithFallbackFn"
    /\ \E r1, r2 \in Reqs :
        /\ Reported(r1) /\ Reported(r2)
        /\ RequestOf(r1).matched = Some("/foo/:bar/:baz")
        /\ EndpointOf(r1) = "/foo/:bar/:baz"
        /\ RequestOf(r2).matched = None
        /\ StatedLabel(r2) = "/foo/1_changed"
        /\ EndpointOf(r2) = "/bar"

\* ----------------------------------------------------------------- C23
\* The on_response calls and the on_failure(FailedAt::Response) calls of
\* request r.
ResponseHooks(r) == Count(r, "on_response")
ResponseFailures(r) == Cardinality(FailureIdxAt(r, "Response"))

\* C23: on_response and on_failure(Response) together fire at most once;
\* none has fired before the combinator completes; once it has completed,
\* exactly one has fired -- on_failure(Response) and no body when the
\* handler failed, on_response and a wrapped body when it answered --, and
\* this stays so when a later poll reaches the hook stage again and faults.
C23_OneCompletionBranch ==
    \A r \in Reqs :
        /\ ResponseHooks(r) + ResponseFailures(r) <= 1
        /\ fut[r].state \in {"absent", "live"} =>
                ResponseHooks(r) + ResponseFailures(r) = 0
        /\ fut[r].state \in {"complete", "panicked"} =>
                /\ ResponseHooks(r) + ResponseFailures(r) = 1
                /\ HandlerErr(r) \/ HandlerOk(r)
                /\ HandlerErr(r) => ResponseFailures(r) = 1 /\ ~body[r].exists
                /\ HandlerOk(r) => ResponseHooks(r) = 1 /\ body[r].exists
                /\ ~SlotsFilled(fut[r])

\* A future that resolved to a response was polled again, the handler
\* future answering with an error this time, and faulted.
C23_Witness ==
    \E r \in Reqs :
        /\ HandlerOk(r)
        /\ fut[r].state = "panicked"
        /\ ResponseHooks(r) = 1 /\ ResponseFailures(r) = 0

\* ----------------------------------------------------------------- C24
\* The classification on_response is to receive for the response the
\* handler of r answered with: Ready with the outcome of the classifier,
\* or RequiresEos with the unit value in place of the classifier.
StatedClassification(r) ==
    LET c == ClassifyResponse(handler[r].v.response)
    IN IF c.t = "Ready" THEN [t |-> "Ready", outcome |-> c.outcome]
       ELSE [t |-> "RequiresEos", classify_eos |-> "()"]

\* C24: on_response receives Ready(outcome) exactly when the classifier
\* returned Ready and RequiresEos(()) exactly when it returned RequiresEos;
\* the terminal-hook slot of the body holds the end-of-stream classifier
\* and the callbacks in the RequiresEos case until the terminal hook has
\* fired, and is empty in the Ready case; the slots of the future are
\* empty, their contents having moved.
C24_ClassificationHandedOver ==
    \A r \in Reqs : HandlerOk(r) =>
        /\ hooks[r][2].h = "on_response"
        /\ hooks[r][2].cls = StatedClassification(r)
        /\ hooks[r][2].cls.t = "Ready" <=> ClassifiedReady(r)
        /\ hooks[r][2].cls.t = "RequiresEos" <=> Deferred(r)
        /\ ClassifiedReady(r) => body[r].parts = None
        /\ Deferred(r) /\ TerminalCount(r) = 0 =>
                body[r].parts = Some(<<"classify_eos", "Traffic">>)
        /\ fut[r].classifier = None /\ fut[r].callbacks = None

\* A deferred response: on_response got RequiresEos(()), a chunk of the
\* body was read, and the slot still holds classifier and callbacks.
C24_Witness ==
    \E r \in Reqs :
        /\ Deferred(r)
        /\ hooks[r][2].cls = [t |-> "RequiresEos", classify_eos |-> "()"]
        /\ Count(r, "chunk") = 1
        /\ IsSome(body[r].parts)

\* ----------------------------------------------------------------- C25
\* The sum of the lengths of the chunks observed by r before its hook i.
RECURSIVE ObservedBefore(_, _)
ObservedBefore(r, i) ==
    IF i <= 1 THEN 0
    ELSE ObservedBefore(r, i - 1) +
            (IF hooks[r][i - 1].h = "chunk"
             THEN Remaining(hooks[r][i - 1].chunk) ELSE 0)

\* C25: the state in the prepare event of a request carries its own path
\* and method; on_response and the terminal hook (on_eos, on_failure) get
\* the state as the hook before them left it, a chunk observation gets
\* that state and leaves the observer's update of it; so every hook of a
\* request holds the endpoint of that request, and with the size unknown
\* the state holds the sum of the chunks observed before.
C25_StateFlows ==
    \A r \in Reqs : hooks[r] # <<>> =>
        /\ hooks[r][1].h = "prepare"
        /\ hooks[r][1].data =
                Some([endpoint |-> RequestOf(r).path,
                      method |-> RequestOf(r).method,
                      body_size |-> 0, exact_body_size_called |-> FALSE])
        /\ \A i \in 2..Len(hooks[r]) :
                LET prev == hooks[r][i - 1].data
                    ev == hooks[r][i]
                IN /\ ev.data.v.endpoint = RequestOf(r).path
                   /\ ev.h # "chunk" => ev.data = prev
                   /\ ev.h = "chunk" =>
                        /\ ev.data = OnBodyChunkCall(LayerOnBodyChunk, ev.chunk,
                                                     ev.size, prev).data
                        /\ ev.size = None =>
                                ev.data.v.body_size =
                                    ObservedBefore(r, i) + Remaining(ev.chunk)
                   /\ ev.h \in {"on_eos", "on_failure"}
                            /\ ~prev.v.exact_body_size_called =>
                        ev.data.v.body_size = ObservedBefore(r, i)

\* Two requests in flight: on_eos of the first got the state with the
\* chunk it observed, on_failure of the second the state with the exact
\* size its observer set, each under its own endpoint.
C25_Witness ==
    /\ \E i \in HookIdx(1, "on_eos") :
            hooks[1][i].data =
                Some([endpoint |-> "/a", method |-> "GET",
                      body_size |-> 2, exact_body_size_called |-> FALSE])
    /\ \E i \in HookIdx(2, "on_failure") :
            hooks[2][i].data =
                Some([endpoint |-> "/foo/1", method |-> "GET",
                      body_size |-> 7, exact_body_size_called |-> TRUE])

\* ----------------------------------------------------------------- C26
\* The positions at which the inner body of r produced a final item, and
\* the first of them.
FinalIdx(r) ==
    {k \in 1..Len(inner[r].produced) : IsFinalItem(inner[r].produced[k])}
FirstFinal(r) ==
    inner[r].produced[CHOOSE k \in FinalIdx(r) : \A j \in FinalIdx(r) : k <= j]

\* The on_eos call the claim states for a stream ending with item.
StatedEos(item, data) ==
    IF IsTrailers(item)
    THEN EvEos(Some(item.frame.trailers),
               ClassifyEos(Some(item.frame.trailers)), data)
    ELSE EvEos(None, ClassifyEos(None), data)

\* C26: for a deferred response, when the first final item of the inner
\* body is a trailers frame, on_eos was called once, with Some(trailers)
\* and classify_eos(Some(trailers)); when it is None, on_eos was called
\* once, with None and classify_eos(None); on_eos is not called in any
\* other case, and the slot of classifier and callbacks is empty after it.
C26_EosTrailers ==
    \A r \in Reqs : Deferred(r) =>
        /\ FinalIdx(r) # {} /\ FirstFinal(r).t # "Err" =>
                /\ Count(r, "on_eos") = 1
                /\ \A i \in HookIdx(r, "on_eos") :
                        hooks[r][i] = StatedEos(FirstFinal(r), hooks[r][i - 1].data)
                /\ body[r].parts = None
        /\ FinalIdx(r) = {} \/ FirstFinal(r).t = "Err" => Count(r, "on_eos") = 0
        /\ \A i \in HookIdx(r, "on_eos") :
                IsSome(hooks[r][i].trailers) <=> IsTrailers(FirstFinal(r))

\* The inner body ended with None and produced a trailers frame after it:
\* on_eos was called with None, and not again for the trailers.
C26_Witness ==
    \E r \in Reqs :
        /\ Deferred(r)
        /\ Len(inner[r].produced) = 2
        /\ inner[r].produced[1] = PollNone
        /\ IsTrailers(inner[r].produced[2])
        /\ \E i \in HookIdx(r, "on_eos") : hooks[r][i].trailers = None

\* ----------------------------------------------------------------- C27
\* The handler future of r answered Pending in this step, and the inner
\* body of r answered Pending in this step.
HandlerPending(r) == fut'[r].pendings # fut[r].pendings
BodyPending(r) ==
    /\ Len(inner'[r].produced) = Len(inner[r].produced) + 1
    /\ inner'[r].produced[Len(inner'[r].produced)] = PollPending

\* C27: a poll of the combinator that finds the handler future Pending
\* calls no hook, changes no metric, resolves to nothing and leaves the
\* five slots filled; a poll of the body wrapper that finds the inner body
\* Pending returns Pending, calls neither the chunk observer nor a
\* terminal hook, changes no metric and leaves the wrapper, its
\* terminal-hook slot and its state as they were.
C27_PendingChangesNothing ==
    [][\A r \in Reqs :
          /\ HandlerPending(r) =>
                /\ hooks' = hooks
                /\ UNCHANGED metricVars
                /\ result' = result /\ body' = body
                /\ SlotsFilled(fut[r]) /\ SlotsFilled(fut'[r])
                /\ fut'[r] = [fut[r] EXCEPT !.pendings = @ + 1]
          /\ BodyPending(r) =>
                /\ out'[r] = Append(out[r], PollPending)
                /\ hooks' = hooks
                /\ UNCHANGED metricVars
                /\ body' = body]_vars

\* The handler future was Pending once before it answered with a deferred
\* response, and the body was Pending while its slot was filled.
C27_Witness ==
    \E r \in Reqs :
        /\ Deferred(r)
        /\ fut[r].pendings = 1
        /\ Len(out[r]) = 1 /\ out[r][1] = PollPending
        /\ IsSome(body[r].parts)

\* ----------------------------------------------------------------- C28
\* The position of step st in the statements of the call that made the
\* future of r.
StepAt(r, st) == CHOOSE i \in 1..Len(fut[r].steps) : fut[r].steps[i] = st

\* The value prepare is to return for request rq under the layer's Traffic.
StatedPrepare(rq) ==
    IF RouterAt(layer.traffic.ignore_patterns, rq.path) THEN None
    ELSE Some([endpoint |-> rq.path, method |-> rq.method,
               body_size |-> 0, exact_body_size_called |-> FALSE])

\* C28: a request that was not called has no prepare and can be called,
\* whatever the other requests have gone through; a request that was
\* called has exactly one prepare, its first hook, made inside call before
\* make_classifier and before the call of the inner service, also when its
\* future was never polled; the gauge was incremented once for each
\* reported request called; the future holds a clone of the callbacks and
\* the layer is as it was mounted.
C28_PrepareOncePerCall ==
    /\ layer = NewLayer(DefaultTraffic, EnableBodySize)
    /\ gaugeIncs = Cardinality({r \in Reqs : Reported(r)})
    /\ \A r \in Reqs :
        /\ Count(r, "prepare") = IF fut[r].state = "absent" THEN 0 ELSE 1
        /\ fut[r].state = "absent" =>
                /\ hooks[r] = <<>> /\ handler[r] = None
                /\ \A rq \in Requests : ENABLED Call(r, rq)
        /\ fut[r].state # "absent" =>
                /\ hooks[r][1].h = "prepare"
                /\ hooks[r][1].data = StatedPrepare(RequestOf(r))
                /\ StepAt(r, "prepare") < StepAt(r, "make_classifier")
                /\ StepAt(r, "prepare") < StepAt(r, "inner.call")
        /\ fut[r].state = "live" =>
                /\ hooks[r] = <<hooks[r][1]>>
                /\ fut[r].callbacks = Some("Traffic")

\* The terminal hook of the first request consumed its clone of the
\* callbacks; the second request was called and its future not polled.
C28_Witness ==
    /\ Count(1, "on_eos") = 1
    /\ body[1].parts = None /\ fut[1].callbacks = None
    /\ fut[2].state = "live"
    /\ Reported(2)
    /\ gaugeIncs = 2 /\ gaugeDecs = 1

\* ----------------------------------------------------------------- C29
\* No item the body wrapper of r returned is a final one.
NoFinalItem(r) == \A i \in 1..Len(out[r]) : ~IsFinalItem(out[r][i])

\* C29: once the future of a request is dropped before it resolved, no
\* step changes its hooks or any metric: prepare stays its only hook, and
\* for a reported request the pending gauge stays incremented and is never
\* decremented. Once the body of a deferred response is dropped before a
\* final item, no step changes its hooks or any metric, and no terminal
\* hook has fired.
C29_CancelledNoHooks ==
    [][\A r \in Reqs :
          /\ fut[r].state = "dropped" \/ cons[r] = "dropped" =>
                /\ hooks'[r] = hooks[r]
                /\ UNCHANGED metricVars
          /\ fut'[r].state = "dropped" =>
                /\ hooks'[r] = <<hooks'[r][1]>>
                /\ hooks'[r][1].h = "prepare"
                /\ ~body'[r].exists
                /\ Reported(r)' =>
                        /\ gauge'[PendingLabels(hooks'[r][1].data.v)] = 1
                        /\ gaugeIncs' = 1 /\ gaugeDecs' = 0
          /\ cons'[r] = "dropped" /\ Deferred(r)' /\ NoFinalItem(r)' =>
                TerminalCount(r)' = 0]_vars

\* The future of a reported request was dropped after the handler future
\* was Pending once: the request is over and the gauge is at one.
C29_Witness ==
    /\ fut[1].state = "dropped"
    /\ fut[1].pendings = 1
    /\ Reported(1)
    /\ gauge[[method |-> "GET", endpoint |-> "/a"]] = 1
    /\ gaugeDecs = 0

\* ----------------------------------------------------------------- C30
\* The hooks of a body wrapper b polled alone, the inner body answering
\* with items one after the other.
RECURSIVE BodyAlone(_, _, _)
BodyAlone(b, items, size_exact) ==
    IF items = <<>> THEN <<>>
    ELSE LET p == PollFrame(b, Head(items), size_exact)
         IN p.events \o BodyAlone(p.body, Tail(items), size_exact)

\* The hooks of request r run alone on the inputs it has had so far: its
\* request, the result of its handler, the items of its inner body.
HooksAlone(r) ==
    LET rq == RequestOf(r)
        data == TrafficPrepare(layer.traffic, rq)
        pre == <<EvPrepare(rq, data, PrepareFallbackArgs(layer.traffic, rq))>>
    IN IF ~IsSome(handler[r]) THEN pre
       ELSE LET p == FuturePoll(NewFuture(data), handler[r].v)
            IN pre \o p.events \o
                    BodyAlone(p.body, inner[r].produced, inner[r].size_exact)

\* C30: in every state of every interleaving, each request has fired the
\* hooks, with the arguments, that it fires when run alone on the same
\* inputs; the gauge under a label pair counts the reported requests
\* under it that were not answered, and the counter under a label triple
\* the answered requests under it -- numbers fixed by what each request
\* went through, whatever the order of the steps.
C30_SchedulingIndependent ==
    /\ \A r \in Reqs : hooks[r] # <<>> => hooks[r] = HooksAlone(r)
    /\ \A l \in Label2 :
            gauge[l] = Cardinality({r \in Reqs :
                            /\ Reported(r)
                            /\ PendingLabels(hooks[r][1].data.v) = l
                            /\ ~HandlerOk(r)})
    /\ \A l \in Label3 :
            counter[l] = Cardinality({r \in Reqs :
                            /\ Reported(r)
                            /\ HandlerOk(r)
                            /\ AnsweredLabels(r) = l})

\* Two requests for the same path have terminated, one by an error of its
\* handler and one by the end of its streamed body.
C30_Witness ==
    /\ \A r \in Reqs : Terminated(r) /\ RequestOf(r).path = "/a"
    /\ HandlerErr(1)
    /\ Deferred(2) /\ Count(2, "on_eos") = 1 /\ Count(2, "chunk") = 1
    /\ gauge[[method |-> "GET", endpoint |-> "/a"]] = 1
    /\ counter[[method |-> "GET", status |-> 200, endpoint |-> "/a"]] = 1

\* ----------------------------------------------------------------- C31
\* The chunk observations of request r, in order.
ChunkCalls(r) == SelectSeq(hooks[r], LAMBDA e : e.h = "chunk")

\* Request r is reported and its first chunk call carried an exact size.
SizeKnownAtFirstChunk(r) ==
    /\ Reported(r)
    /\ ChunkCalls(r) # <<>>
    /\ IsSome(ChunkCalls(r)[1].size)

\* The chunk calls of r after the first that carried no exact size.
UnsizedLater(r) ==
    {i \in 2..Len(ChunkCalls(r)) : ~IsSome(ChunkCalls(r)[i].size)}

C32_OneObservationPerResponse ==
    (/\ IsSome(LayerOnBodyChunk)
     /\ Reported(1)
     /\ HandlerOk(1)
     /\ NaturalEnd(1))
        => Len(bodySizes) = 1

\* ----------------------------------------------------------------- C33
\* The number of bytes in the first k chunks of the sequence of chunks cs.
RECURSIVE BytesOfFirst(_, _)
BytesOfFirst(cs, k) ==
    IF k = 0 THEN 0 ELSE BytesOfFirst(cs, k - 1) + Len(cs[k])

\* No chunk call of request r carried an exact size.
NeverSized(r) ==
    \A k \in 1..Len(ChunkCalls(r)) : ~IsSome(ChunkCalls(r)[k].size)

\* The body_size of request r after its k-th chunk call (k = 0: as
\* prepare left it).
BodySizeAfter(r, k) ==
    IF k = 0 THEN hooks[r][1].data.v.body_size
    ELSE ChunkCalls(r)[k].data.v.body_size

\* C33: while no chunk call of a reported request carried an exact size,
\* its body_size is 0 after prepare, after the k-th chunk call it is the
\* number of bytes of the first k chunks the inner body delivered, hence
\* never below its value after the call before; the state the body holds
\* is the number of all bytes delivered so far.
C33_UnknownSizeAccumulates ==
    (Reported(1) /\ NeverSized(1)) =>
        LET delivered == ChunksProduced(out[1]) IN
        /\ BodySizeAfter(1, 0) = 0
        /\ Len(ChunkCalls(1)) = Len(delivered)
        /\ \A k \in 1..Len(ChunkCalls(1)) :
                /\ BodySizeAfter(1, k) = BytesOfFirst(delivered, k)
                /\ BodySizeAfter(1, k) >= BodySizeAfter(1, k - 1)
        /\ body[1].exists =>
                body[1].callbacks_data.v.body_size =
                    BytesOfFirst(delivered, Len(delivered))

\* Two chunks of two bytes and an empty one were observed without an
\* exact size, and the body holds 4.
C33_Witness ==
    /\ Reported(1) /\ NeverSized(1)
    /\ Len(ChunkCalls(1)) = 3
    /\ \E k \in 1..3 : ChunkCalls(1)[k].chunk = <<>>
    /\ body[1].callbacks_data.v.body_size = 4

\* ----------------------------------------------------------------- C34
\* The reported requests whose prepare stored the label pair l.
PreparedUnder(l) ==
    {r \in Reqs : Reported(r) /\ PendingLabels(hooks[r][1].data.v) = l}

\* C34: under every {method, endpoint} label pair the pending gauge is
\* not negative and counts the reported requests whose prepare stored
\* that pair and whose on_response has not run; on_response runs at most
\* once per request, after its prepare and on the method and endpoint its
\* prepare stored, and the sink has seen one increment per reported
\* request and one decrement per answered reported request.
C34_GaugeCountsPending ==
    /\ \A l \in Label2 :
            /\ gauge[l] >= 0
            /\ gauge[l] = Cardinality({r \in PreparedUnder(l) :
                                        Count(r, "on_response") = 0})
    /\ \A r \in Reqs :
            /\ Count(r, "on_response") <= 1
            /\ \A i \in HookIdx(r, "on_response") :
                    /\ i > 1 /\ hooks[r][1].h = "prepare"
                    /\ Reported(r) =>
                            PendingLabels(hooks[r][i].data.v) =
                                PendingLabels(hooks[r][1].data.v)
    /\ gaugeIncs = Cardinality({r \in Reqs : Reported(r)})
    /\ gaugeDecs = Cardinality({r \in Reqs :
                        Reported(r) /\ Count(r, "on_response") = 1})

\* Two requests were reported under the same label pair; the first was
\* answered, the second is still pending, and the gauge stands at 1.
C34_Witness ==
    /\ Reported(1) /\ Reported(2)
    /\ PendingLabels(hooks[1][1].data.v) = PendingLabels(hooks[2][1].data.v)
    /\ Count(1, "on_response") = 1
    /\ Count(2, "on_response") = 0
    /\ gauge[PendingLabels(hooks[1][1].data.v)] = 1
    /\ gaugeIncs = 2 /\ gaugeDecs = 1

PairingStep(b) ==
    builder[b].state = "LayerOnly" /\ builder'[b].state = "Paired"

\* The names described in this step.
NewlyDescribed == described' \ described

\* C36: in the step that pairs a builder with the prefix p, the four name
\* cells come to hold the p_ names; unless no_initialize_metrics was
\* requested the names described in the step are the p_ names of the
\* counter, the gauge and the duration histogram, and that of the
\* body-size histogram exactly when body-size tracking is enabled; the
\* default handle registers the duration buckets under the p_ duration
\* name; and a pairing with no_initialize_metrics, with or without a
\* prefix, describes nothing.
C36_PrefixBeforeNames ==
    [][\A b \in Builders : PairingStep(b) =>
          /\ builder[b].no_initialize_metrics => described' = described
          /\ IsSome(builder[b].metric_prefix) =>
                LET pre == builder[b].metric_prefix.v IN
                /\ {prefixed'[c].v : c \in CellNames} = PrefixedNames(pre)
                /\ ~builder[b].no_initialize_metrics =>
                        NewlyDescribed =
                            {Format(pre, "_http_requests_total"),
                             Format(pre, "_http_requests_pending"),
                             Format(pre, "_http_requests_duration_seconds")}
                            \cup IF builder[b].enable_body_size
                                 THEN {Format(pre, "_http_response_body_size")}
                                 ELSE {}
                /\ builder'[b].metric_handle = Some("default") =>
                        recorder' = Some([buckets_for |->
                            Format(pre, "_http_requests_duration_seconds")])
      ]_vars

\* A builder with the prefix pref and body-size tracking was paired with
\* the default handle: the four pref_ names are described and the duration
\* buckets are registered under the pref_ duration name.
C36_Witness ==
    /\ builder[1].state = "Paired"
    /\ builder[1].metric_prefix = Some("pref")
    /\ builder[1].metric_handle = Some("default")
    /\ builder[1].enable_body_size
    /\ ~builder[1].no_initialize_metrics
    /\ described = PrefixedNames("pref")
    /\ recorder = Some([buckets_for |-> "pref_http_requests_duration_seconds"])

====
